---- MODULE Spec2Model ----
(***************************************************************************)
(* A model of the e2e-message cryptographic core: the symmetric key        *)
(* ratchet (internal/crypto, Ratchet), the AES-GCM and ECDH glue, and the  *)
(* Session object with the text framing "msgNum base64".                   *)
(*                                                                         *)
(* Cryptographic primitives of the Go standard library (HKDF, AES-GCM,     *)
(* P-256) are modelled symbolically: a derived key is the term that names  *)
(* its derivation, so two keys are equal exactly when they were derived    *)
(* the same way; a GCM box opens only under the key and nonce that sealed  *)
(* it.                                                                     *)
(***************************************************************************)
EXTENDS FiniteSets, Integers, Sequences, TLC

(***************************************************************************)
(* Program constants.                                                      *)
(***************************************************************************)
maxSkip == 100
nonceSize == 12
tagSize == 16

(***************************************************************************)
(* Bounds of the model.                                                    *)
(***************************************************************************)
\* width in bits of the message counters (uint32 in the source; TLC's
\* integers stop at 2^31-1, so the counters are modelled CounterBits wide)
CounterBits == 10
\* successful Encrypt calls over all sessions (of A in SpecSkip)
MaxSend == 2
\* Encrypt calls of the sender in the one-way long-run specification
MaxSendLong == 102
\* Decrypt calls whose input did not come from the peer's Encrypt
MaxInject == 2
\* successful SetPeerPublicKey calls over all sessions
MaxHandshakes == 2
\* the same, where sessions import the peer's key again
MaxRekey == 3
\* Decrypt calls of the receiver whose counter is driven to its largest value
MaxJump == 13
\* calls of NextSendKey and GetRecvKey by the threads that share a Ratchet
MaxRatchetCalls == 4

Uint32 == 2 ^ CounterBits

Nil == "nil"
Peers == {"A", "B"}
Other(p) == IF p = "A" THEN "B" ELSE "A"

(***************************************************************************)
(* Byte strings.  A byte string is literal bytes (kind "raw", the bytes in *)
(* raw), the output of AES-GCM Seal (kind "aead": the nonce followed by    *)
(* the sealed box), or bytes that are no output of Seal under any key      *)
(* (kind "junk"); len is its length in bytes.                              *)
(***************************************************************************)
NoChainKey == [secret |-> {}, which |-> 0, steps |-> 0, off |-> <<>>]
NoMsgKey == [chain |-> NoChainKey, num |-> 0]
NoBox == [key |-> NoMsgKey, nonce |-> 0 - 1, pt |-> <<>>]

RawBytes(seq) == [nonce |-> 0 - 1, kind |-> "raw", raw |-> seq, len |-> Len(seq), box |-> NoBox]
JunkBytes(n) == [nonce |-> 0 - 1, kind |-> "junk", raw |-> <<>>, len |-> n, box |-> NoBox]
EmptyBytes == RawBytes(<<>>)

(***************************************************************************)
(* Strings are sequences of characters.  A character is a decimal digit,   *)
(* the space, "!" (neither a digit nor in the base64 alphabet), or one     *)
(* base64 group standing for the base64 text of a byte string.             *)
(***************************************************************************)
Ch(c) == [k |-> c, b |-> EmptyBytes]
Digits == <<"0", "1", "2", "3", "4", "5", "6", "7", "8", "9">>
IsDigit(c) == \E d \in 1..10 : c.k = Digits[d]
DigitVal(c) == (CHOOSE d \in 1..10 : c.k = Digits[d]) - 1

RECURSIVE FormatUint(_)
\* fmt.Sprintf("%d", n)
FormatUint(n) ==
    IF n < 10 THEN <<Ch(Digits[n + 1])>>
    ELSE FormatUint(n \div 10) \o <<Ch(Digits[(n % 10) + 1])>>

RECURSIVE ParseDigits(_, _, _)
ParseDigits(s, i, acc) ==
    IF i > Len(s) THEN [err |-> Nil, val |-> acc]
    ELSE IF ~IsDigit(s[i]) THEN [err |-> "syntax", val |-> 0]
    ELSE IF acc * 10 + DigitVal(s[i]) >= Uint32 THEN [err |-> "range", val |-> 0]
    ELSE ParseDigits(s, i + 1, acc * 10 + DigitVal(s[i]))

\* strconv.ParseUint(s, 10, 32)
ParseUint(s) ==
    IF Len(s) = 0 THEN [err |-> "syntax", val |-> 0] ELSE ParseDigits(s, 1, 0)

\* base64.StdEncoding.EncodeToString
Base64Encode(bytes) == IF bytes.len = 0 THEN <<>> ELSE <<[k |-> "b64", b |-> bytes]>>

\* Faulty variant of Base64Decode: characters outside the alphabet are skipped.
Base64Decode_Lenient(s) ==
    IF Len(s) = 1 /\ s[1].k = "b64" THEN [err |-> Nil, bytes |-> s[1].b]
    ELSE [err |-> Nil, bytes |-> EmptyBytes]

\* base64.StdEncoding.DecodeString
Base64Decode(s) ==
    IF Len(s) = 0 THEN [err |-> Nil, bytes |-> EmptyBytes]
    ELSE IF Len(s) = 1 /\ s[1].k = "b64" THEN [err |-> Nil, bytes |-> s[1].b]
    ELSE [err |-> "InvalidEncoding", bytes |-> EmptyBytes]

\* strings.SplitN(input, " ", 2)
SplitN2(input) ==
    IF \E i \in 1..Len(input) : input[i].k = " "
    THEN LET i == CHOOSE j \in 1..Len(input) :
                      input[j].k = " " /\ \A k \in 1..(j - 1) : input[k].k # " "
         IN  <<SubSeq(input, 1, i - 1), SubSeq(input, i + 1, Len(input))>>
    ELSE <<input>>

(***************************************************************************)
(* internal/crypto: ECDH, HKDF, AES-GCM.                                   *)
(***************************************************************************)
\* the private scalars the key generator may draw
Scalars == {1, 2, 3}

\* PrivateKey.PublicKey().Bytes(): the uncompressed point 0x04 || X || Y
PublicKeyBytes(k) == <<4, (2 * k) % 3, k % 2>>

\* ParsePublicKey: the bytes must encode a point of the curve
ParsePublicKey(data) ==
    IF data.kind = "raw" /\ \E k \in Scalars : data.raw = PublicKeyBytes(k)
    THEN [err |-> Nil, scalar |-> CHOOSE k \in Scalars : data.raw = PublicKeyBytes(k)]
    ELSE [err |-> "InvalidPublicKey", scalar |-> 0]

\* Faulty variant of ComputeSharedSecret: the peer's point is not used.
ComputeSharedSecret_OwnKey(privateKey, peerScalar) == {privateKey}

\* ComputeSharedSecret: the X coordinate of priv * peerPoint, the same for
\* (a, b*G) and (b, a*G)
ComputeSharedSecret(privateKey, peerScalar) == {privateKey, peerScalar}

\* DeriveAESKey: HKDF(sharedSecret, info "e2e-message-aes-key", 32)
DeriveAESKey(sharedSecret) == [info |-> "e2e-message-aes-key", ikm |-> sharedSecret]
NoAesKey == [info |-> Nil, ikm |-> {}]

\* Faulty variant of LexLess: only the lengths are compared.
LexLess_ByLength(a, b) == Len(a) < Len(b)

\* bytes.Compare-style order of string(a) < string(b)
RECURSIVE LexLess(_, _)
LexLess(a, b) ==
    IF Len(b) = 0 THEN FALSE
    ELSE IF Len(a) = 0 THEN TRUE
    ELSE IF Head(a) # Head(b) THEN Head(a) < Head(b)
    ELSE LexLess(Tail(a), Tail(b))

\* what is in the nonce buffer when rand.Read returns an error
NoNonce == 0 - 1

\* crypto.Encrypt: the error it returns; aes.NewCipher and cipher.NewGCM
\* accept every 32-byte key, rand.Read may fail
AeadEncryptErr(key, nonce) == IF nonce = NoNonce THEN "NonceFailed" ELSE Nil

\* crypto.Encrypt: nonce || gcm.Seal(key, nonce, plaintext)
AeadEncrypt(plaintext, key, nonce) ==
    [nonce |-> nonce, kind |-> "aead", raw |-> <<>>,
     len |-> nonceSize + Len(plaintext) + tagSize,
     box |-> [key |-> key, nonce |-> nonce, pt |-> plaintext]]

\* Faulty variant of AeadDecrypt: the nonce is not authenticated.
AeadDecrypt_NonceUnchecked(ciphertext, key) ==
    IF ciphertext.len < nonceSize
    THEN [pt |-> <<>>, err |-> "CiphertextTooShort"]
    ELSE IF ciphertext.kind = "aead" /\ ciphertext.box.key = key
         THEN [pt |-> ciphertext.box.pt, err |-> Nil]
         ELSE [pt |-> <<>>, err |-> "AuthenticationFailed"]

\* crypto.Decrypt
AeadDecrypt(ciphertext, key) ==
    IF ciphertext.len < nonceSize
    THEN [pt |-> <<>>, err |-> "CiphertextTooShort"]
    ELSE IF /\ ciphertext.kind = "aead"
            /\ ciphertext.box.key = key
            /\ ciphertext.box.nonce = ciphertext.nonce
         THEN [pt |-> ciphertext.box.pt, err |-> Nil]
         ELSE [pt |-> <<>>, err |-> "AuthenticationFailed"]

(***************************************************************************)
(* internal/crypto: verification words.                                    *)
(***************************************************************************)
wordlist ==
    <<"apple", "banana", "cherry", "dragon", "eagle", "falcon",
      "garden", "harbor", "island", "jungle", "kitten", "lemon",
      "mango", "nectar", "orange", "panda", "quartz", "rabbit",
      "salmon", "tiger", "umbrella", "violet", "walnut", "xenon",
      "yellow", "zebra", "anchor", "bridge", "castle", "delta",
      "echo", "forest", "guitar", "hammer", "ivory", "jacket",
      "kernel", "laptop", "marble", "needle", "ocean", "pencil",
      "queen", "river", "sunset", "temple", "unity", "valley",
      "window", "xerox", "yacht", "zenith", "alpha", "beta",
      "gamma", "delta", "epsilon", "zeta", "theta", "kappa",
      "lambda", "sigma", "omega", "phoenix", "crypto", "cipher",
      "binary", "matrix", "vector", "prism", "quantum", "plasma",
      "nebula", "comet", "orbit", "lunar", "solar", "stellar",
      "cosmic", "galaxy", "planet", "meteor", "aurora", "vertex",
      "nexus", "apex", "summit", "zenith", "peak", "crown",
      "royal", "noble", "brave", "swift", "bold", "calm",
      "pure", "wise", "true", "free", "light", "spark",
      "flame", "blaze", "glow", "shine", "gleam", "flash",
      "beam", "ray", "wave", "tide", "stream", "brook",
      "creek", "lake", "pond", "pool", "spring", "well",
      "rain", "snow", "frost", "mist", "cloud", "storm",
      "wind", "breeze", "gust", "draft", "dawn", "dusk",
      "noon", "night", "star", "moon", "sun", "sky",
      "earth", "stone", "rock", "sand", "dust", "clay",
      "soil", "tree", "leaf", "root", "bark", "branch",
      "seed", "bloom", "petal", "thorn", "vine", "grass",
      "fern", "moss", "reed", "kelp", "coral", "shell",
      "pearl", "jade", "ruby", "gold", "silver", "bronze",
      "copper", "iron", "steel", "zinc", "lead", "tin",
      "brass", "crystal", "diamond", "emerald", "topaz", "opal",
      "amber", "onyx", "obsidian", "granite", "basalt", "maple",
      "willow", "cedar", "pine", "birch", "oak", "elm",
      "ash", "beech", "palm", "rose", "lily", "tulip",
      "daisy", "lotus", "orchid", "iris", "peony", "poppy",
      "clover", "mint", "basil", "sage", "thyme", "dill",
      "pepper", "ginger", "cumin", "curry", "chili", "honey",
      "sugar", "cream", "butter", "cheese", "bread", "cake",
      "cookie", "candy", "jelly", "coffee", "cocoa", "vanilla",
      "caramel", "maple", "north", "south", "east", "west",
      "center", "left", "right", "front", "back", "middle",
      "first", "second", "third", "fourth", "fifth", "one",
      "two", "three", "four", "five", "six", "seven",
      "eight", "nine", "ten", "red", "blue", "green",
      "white", "black">>

RECURSIVE SumOver(_)
\* the sum of the squares of the scalars of a shared secret
SumOver(S) ==
    IF S = {} THEN 0
    ELSE LET k == CHOOSE x \in S : TRUE IN k * k + SumOver(S \ {k})
\* sha256.Sum256(key): 32 bytes that depend on every part of the key
Sha256(key) ==
    LET seed == SumOver(key.ikm) * 73 + (IF key.info = Nil THEN 0 ELSE 19)
    IN  [i \in 0..31 |-> (seed * (i + 3) + i * 151 + 29) % 256]

\* binary.BigEndian.Uint16(b)
BigEndianUint16(hi, lo) == hi * 256 + lo

\* GenerateVerificationWords
GenerateVerificationWords(key) ==
    LET hash == Sha256(key)
    IN  [i \in 1..5 |->
            LET index == BigEndianUint16(hash[(i - 1) * 2], hash[(i - 1) * 2 + 1])
                             % Len(wordlist)
            IN  wordlist[index + 1]]

(***************************************************************************)
(* internal/crypto: Ratchet.                                               *)
(*                                                                         *)
(* A chain key is the term [secret, which, steps, off]: chain `which` (1   *)
(* or 2) of HKDF(secret, "e2e-ratchet-chains"), advanced `steps` times,    *)
(* the i-th advance (i = 0, 1, ...) taken with message number i mod 2^w.   *)
(* An advance with any other message number is recorded in off and starts  *)
(* the count again, so that every derivation has exactly one term.         *)
(***************************************************************************)
NoSkipped == [n \in {} |-> NoMsgKey]

NoRatchet ==
    [maxSkip |-> 0, alloc |-> FALSE,
     sendChainKey |-> NoChainKey, recvChainKey |-> NoChainKey,
     sendMsgNum |-> 0, recvMsgNum |-> 0, skippedKeys |-> NoSkipped]

\* Faulty variant of deriveKeys: the message key depends on neither the step
\* of the chain nor the message number.
deriveKeys_FixedKey(chainKey, msgNum) ==
    [msgKey |-> [chain |-> [chainKey EXCEPT !.steps = 0, !.off = <<>>], num |-> 0],
     newChainKey |->
        IF msgNum = chainKey.steps % Uint32
        THEN [chainKey EXCEPT !.steps = @ + 1]
        ELSE [chainKey EXCEPT !.off = Append(@, <<chainKey.steps, msgNum>>),
                              !.steps = 0]]

\* Ratchet.deriveKeys: HKDF(chainKey || BE32(msgNum)) under the two labels
deriveKeys(chainKey, msgNum) ==
    [msgKey |-> [chain |-> chainKey, num |-> msgNum],
     newChainKey |->
        IF msgNum = chainKey.steps % Uint32
        THEN [chainKey EXCEPT !.steps = @ + 1]
        ELSE [chainKey EXCEPT !.off = Append(@, <<chainKey.steps, msgNum>>),
                              !.steps = 0]]

\* Faulty variant of NewRatchet: the responder does not swap the chains.
NewRatchet_NoSwap(sharedSecret, isInit) ==
    [maxSkip |-> maxSkip, alloc |-> TRUE,
     sendChainKey |-> [secret |-> sharedSecret, which |-> 1, steps |-> 0, off |-> <<>>],
     recvChainKey |-> [secret |-> sharedSecret, which |-> 2, steps |-> 0, off |-> <<>>],
     sendMsgNum |-> 0, recvMsgNum |-> 0,
     skippedKeys |-> NoSkipped]

\* NewRatchet: the two chains from HKDF; the responder swaps them
NewRatchet(sharedSecret, isInit) ==
    LET chainKey1 == [secret |-> sharedSecret, which |-> 1, steps |-> 0, off |-> <<>>]
        chainKey2 == [secret |-> sharedSecret, which |-> 2, steps |-> 0, off |-> <<>>]
    IN  [maxSkip |-> maxSkip, alloc |-> TRUE,
         sendChainKey |-> IF isInit THEN chainKey1 ELSE chainKey2,
         recvChainKey |-> IF isInit THEN chainKey2 ELSE chainKey1,
         sendMsgNum |-> 0, recvMsgNum |-> 0,
         skippedKeys |-> NoSkipped]

\* Ratchet.NextSendKey
NextSendKey(r) ==
    LET d == deriveKeys(r.sendChainKey, r.sendMsgNum)
    IN  [msgNum |-> r.sendMsgNum, msgKey |-> d.msgKey,
         ratchet |-> [r EXCEPT !.sendChainKey = d.newChainKey,
                               !.sendMsgNum = (@ + 1) % Uint32]]

\* Faulty variant of MapPut: the map is replaced by the new entry.
MapPut_Single(m, n, v) == (n :> v)
\* Faulty variant of MapDelete: the entries below n go as well.
MapDelete_Below(m, n) == [x \in {y \in DOMAIN m : y > n} |-> m[x]]

\* r.skippedKeys[n] = v and delete(r.skippedKeys, n)
MapPut(m, n, v) == (n :> v) @@ m
MapDelete(m, n) == [x \in (DOMAIN m) \ {n} |-> m[x]]

RECURSIVE SkipAhead_NoCache(_, _)
\* Faulty variant of SkipAhead: the keys passed over are not stored.
SkipAhead_NoCache(r, msgNum) ==
    IF r.recvMsgNum < msgNum
    THEN LET d == deriveKeys(r.recvChainKey, r.recvMsgNum)
         IN  SkipAhead_NoCache([r EXCEPT !.recvChainKey = d.newChainKey,
                                         !.recvMsgNum = (@ + 1) % Uint32],
                               msgNum)
    ELSE r

RECURSIVE SkipAhead_StaleChain(_, _)
\* Faulty variant of SkipAhead: the receive chain is not advanced.
SkipAhead_StaleChain(r, msgNum) ==
    IF r.recvMsgNum < msgNum
    THEN LET d == deriveKeys(r.recvChainKey, r.recvMsgNum)
         IN  SkipAhead_StaleChain(
                 [r EXCEPT !.skippedKeys = MapPut(@, r.recvMsgNum, d.msgKey),
                           !.recvMsgNum = (@ + 1) % Uint32],
                 msgNum)
    ELSE r

RECURSIVE SkipAhead_OneTooFar(_, _)
\* Faulty variant of SkipAhead: the loop runs while recvMsgNum <= msgNum.
SkipAhead_OneTooFar(r, msgNum) ==
    IF r.recvMsgNum <= msgNum
    THEN LET d == deriveKeys(r.recvChainKey, r.recvMsgNum)
         IN  SkipAhead_OneTooFar(
                 [r EXCEPT !.skippedKeys = MapPut(@, r.recvMsgNum, d.msgKey),
                           !.recvChainKey = d.newChainKey,
                           !.recvMsgNum = (@ + 1) % Uint32],
                 msgNum)
    ELSE r

RECURSIVE SkipAhead(_, _)
\* the loop of GetRecvKey: for r.recvMsgNum < msgNum { ... }
SkipAhead(r, msgNum) ==
    IF r.recvMsgNum < msgNum
    THEN LET d == deriveKeys(r.recvChainKey, r.recvMsgNum)
         IN  SkipAhead([r EXCEPT !.skippedKeys = MapPut(@, r.recvMsgNum, d.msgKey),
                                 !.recvChainKey = d.newChainKey,
                                 !.recvMsgNum = (@ + 1) % Uint32],
                       msgNum)
    ELSE r

\* Faulty variant of GetRecvKey: a key found in the cache is left in it.
GetRecvKey_KeepCached(r, msgNum) ==
    IF msgNum \in DOMAIN r.skippedKeys
    THEN [key |-> r.skippedKeys[msgNum], err |-> Nil, ratchet |-> r]
    ELSE IF msgNum < r.recvMsgNum
    THEN [key |-> NoMsgKey, err |-> "AlreadyReceived", ratchet |-> r]
    ELSE IF (msgNum - r.recvMsgNum) % Uint32 > r.maxSkip
    THEN [key |-> NoMsgKey, err |-> "TooManySkipped", ratchet |-> r]
    ELSE LET r1 == SkipAhead(r, msgNum)
             d == deriveKeys(r1.recvChainKey, r1.recvMsgNum)
         IN  [key |-> d.msgKey, err |-> Nil,
              ratchet |-> [r1 EXCEPT !.recvChainKey = d.newChainKey,
                                     !.recvMsgNum = (@ + 1) % Uint32]]

\* Faulty variant of GetRecvKey: a gap of exactly maxSkip is refused.
GetRecvKey_OffByOne(r, msgNum) ==
    IF msgNum \in DOMAIN r.skippedKeys
    THEN [key |-> r.skippedKeys[msgNum], err |-> Nil,
          ratchet |-> [r EXCEPT !.skippedKeys = MapDelete(@, msgNum)]]
    ELSE IF msgNum < r.recvMsgNum
    THEN [key |-> NoMsgKey, err |-> "AlreadyReceived", ratchet |-> r]
    ELSE IF (msgNum - r.recvMsgNum) % Uint32 >= r.maxSkip
    THEN [key |-> NoMsgKey, err |-> "TooManySkipped", ratchet |-> r]
    ELSE LET r1 == SkipAhead(r, msgNum)
             d == deriveKeys(r1.recvChainKey, r1.recvMsgNum)
         IN  [key |-> d.msgKey, err |-> Nil,
              ratchet |-> [r1 EXCEPT !.recvChainKey = d.newChainKey,
                                     !.recvMsgNum = (@ + 1) % Uint32]]

\* Faulty variant of GetRecvKey: the skip bound is found out while skipping.
GetRecvKey_SkipBeforeCheck(r, msgNum) ==
    IF msgNum \in DOMAIN r.skippedKeys
    THEN [key |-> r.skippedKeys[msgNum], err |-> Nil,
          ratchet |-> [r EXCEPT !.skippedKeys = MapDelete(@, msgNum)]]
    ELSE IF msgNum < r.recvMsgNum
    THEN [key |-> NoMsgKey, err |-> "AlreadyReceived", ratchet |-> r]
    ELSE IF (msgNum - r.recvMsgNum) % Uint32 > r.maxSkip
    THEN [key |-> NoMsgKey, err |-> "TooManySkipped",
          ratchet |-> SkipAhead(r, r.recvMsgNum + r.maxSkip)]
    ELSE LET r1 == SkipAhead(r, msgNum)
             d == deriveKeys(r1.recvChainKey, r1.recvMsgNum)
         IN  [key |-> d.msgKey, err |-> Nil,
              ratchet |-> [r1 EXCEPT !.recvChainKey = d.newChainKey,
                                     !.recvMsgNum = (@ + 1) % Uint32]]

\* Ratchet.GetRecvKey
GetRecvKey(r, msgNum) ==
    IF msgNum \in DOMAIN r.skippedKeys
    THEN [key |-> r.skippedKeys[msgNum], err |-> Nil,
          ratchet |-> [r EXCEPT !.skippedKeys = MapDelete(@, msgNum)]]
    ELSE IF msgNum < r.recvMsgNum
    THEN [key |-> NoMsgKey, err |-> "AlreadyReceived", ratchet |-> r]
    ELSE IF (msgNum - r.recvMsgNum) % Uint32 > r.maxSkip
    THEN [key |-> NoMsgKey, err |-> "TooManySkipped", ratchet |-> r]
    ELSE LET r1 == SkipAhead(r, msgNum)
             d == deriveKeys(r1.recvChainKey, r1.recvMsgNum)
         IN  [key |-> d.msgKey, err |-> Nil,
              ratchet |-> [r1 EXCEPT !.recvChainKey = d.newChainKey,
                                     !.recvMsgNum = (@ + 1) % Uint32]]

(***************************************************************************)
(* internal/session: Session (the variant with the text framing and        *)
(* lastRecvMsgNum).  The calls are operators on one session record; each   *)
(* returns the error, the output and the session as the call leaves it.    *)
(***************************************************************************)
\* NewSession
NewSession(k) ==
    [privateKey |-> k, ratchet |-> NoRatchet,
     publicKey |-> PublicKeyBytes(k), peerPubKey |-> <<>>,
     aesKey |-> NoAesKey, established |-> FALSE,
     isInitiator |-> FALSE, lastRecvMsgNum |-> 0]

\* Session.GetPublicKeyBase64
GetPublicKeyBase64(S) == Base64Encode(RawBytes(S.publicKey))

\* Faulty variant of SetPeerPublicKey: the peer key is stored before it is
\* parsed.
SetPeerPublicKey_EarlyCommit(S, base64Key) ==
    LET dec == Base64Decode(base64Key)
        parsed == ParsePublicKey(dec.bytes)
        sharedSecret == ComputeSharedSecret(S.privateKey, parsed.scalar)
        isInit == LexLess(S.publicKey, dec.bytes.raw)
    IN  IF dec.err # Nil THEN [err |-> "InvalidEncoding", sess |-> S]
        ELSE IF parsed.err # Nil
        THEN [err |-> "InvalidPublicKey",
              sess |-> [S EXCEPT !.peerPubKey = dec.bytes.raw]]
        ELSE [err |-> Nil,
              sess |-> [S EXCEPT !.isInitiator = isInit,
                                 !.peerPubKey = dec.bytes.raw,
                                 !.aesKey = DeriveAESKey(sharedSecret),
                                 !.ratchet = NewRatchet(sharedSecret, isInit),
                                 !.established = TRUE]]

\* Faulty variant of SetPeerPublicKey: established is set before the key is
\* parsed.
SetPeerPublicKey_EstablishedFirst(S, base64Key) ==
    LET dec == Base64Decode(base64Key)
        parsed == ParsePublicKey(dec.bytes)
        sharedSecret == ComputeSharedSecret(S.privateKey, parsed.scalar)
        isInit == LexLess(S.publicKey, dec.bytes.raw)
    IN  IF dec.err # Nil THEN [err |-> "InvalidEncoding", sess |-> S]
        ELSE IF parsed.err # Nil
        THEN [err |-> "InvalidPublicKey", sess |-> [S EXCEPT !.established = TRUE]]
        ELSE [err |-> Nil,
              sess |-> [S EXCEPT !.isInitiator = isInit,
                                 !.peerPubKey = dec.bytes.raw,
                                 !.aesKey = DeriveAESKey(sharedSecret),
                                 !.ratchet = NewRatchet(sharedSecret, isInit),
                                 !.established = TRUE]]

\* Session.SetPeerPublicKey
SetPeerPublicKey(S, base64Key) ==
    LET dec == Base64Decode(base64Key)
        parsed == ParsePublicKey(dec.bytes)
        sharedSecret == ComputeSharedSecret(S.privateKey, parsed.scalar)
        isInit == LexLess(S.publicKey, dec.bytes.raw)
    IN  IF dec.err # Nil THEN [err |-> "InvalidEncoding", sess |-> S]
        ELSE IF parsed.err # Nil THEN [err |-> "InvalidPublicKey", sess |-> S]
        ELSE [err |-> Nil,
              sess |-> [S EXCEPT !.isInitiator = isInit,
                                 !.peerPubKey = dec.bytes.raw,
                                 !.aesKey = DeriveAESKey(sharedSecret),
                                 !.ratchet = NewRatchet(sharedSecret, isInit),
                                 !.established = TRUE]]

\* fmt.Sprintf("%d %s", msgNum, base64(ciphertext))
FormatWire(msgNum, ciphertext) ==
    FormatUint(msgNum) \o <<Ch(" ")>> \o Base64Encode(ciphertext)

\* zeroed: the call has overwritten the message key it obtained with zeros
NoCall ==
    [key |-> NoMsgKey, err |-> Nil, msgNum |-> 0, out |-> <<>>, keyErr |-> "none",
     zeroed |-> FALSE]

\* Session.Encrypt; nonce is what rand.Read returns inside crypto.Encrypt,
\* NoNonce when it returns an error
Encrypt(S, plaintext, nonce) ==
    IF ~S.established
    THEN [NoCall EXCEPT !.err = "NotEstablished"] @@ [sess |-> S]
    ELSE LET k == NextSendKey(S.ratchet)
             ciphertext == AeadEncrypt(plaintext, k.msgKey, nonce)
         IN  IF AeadEncryptErr(k.msgKey, nonce) # Nil
             THEN [key |-> k.msgKey, err |-> "EncryptionFailed", msgNum |-> k.msgNum,
                   sess |-> [S EXCEPT !.ratchet = k.ratchet],
                   out |-> <<>>, keyErr |-> "none", zeroed |-> FALSE]
             ELSE [key |-> k.msgKey, err |-> Nil, msgNum |-> k.msgNum,
                   sess |-> [S EXCEPT !.ratchet = k.ratchet],
                   out |-> FormatWire(k.msgNum, ciphertext), keyErr |-> "none",
                   zeroed |-> TRUE]

\* Faulty variant of Decrypt: a failure of the AEAD step closes the session.
Decrypt_FatalFailure(S, input) ==
    LET parts == SplitN2(input)
        num == ParseUint(parts[1])
        dec == Base64Decode(parts[2])
        k == GetRecvKey(S.ratchet, num.val)
        S1 == [S EXCEPT !.ratchet = k.ratchet]
        opened == AeadDecrypt(dec.bytes, k.key)
    IN  IF ~S.established
        THEN [NoCall EXCEPT !.err = "NotEstablished"] @@ [sess |-> S]
        ELSE IF Len(parts) # 2
        THEN [NoCall EXCEPT !.err = "InvalidFormat"] @@ [sess |-> S]
        ELSE IF num.err # Nil
        THEN [NoCall EXCEPT !.err = "InvalidMessageNumber"] @@ [sess |-> S]
        ELSE IF dec.err # Nil
        THEN [NoCall EXCEPT !.err = "InvalidEncoding", !.msgNum = num.val] @@ [sess |-> S]
        ELSE IF k.err # Nil
        THEN [NoCall EXCEPT !.err = k.err, !.msgNum = num.val, !.keyErr = k.err]
             @@ [sess |-> S1]
        ELSE IF opened.err # Nil
        THEN [key |-> k.key, err |-> opened.err, msgNum |-> num.val,
              sess |-> [S1 EXCEPT !.established = FALSE],
              out |-> <<>>, keyErr |-> Nil, zeroed |-> FALSE]
        ELSE [key |-> k.key, err |-> Nil, msgNum |-> num.val,
              sess |-> [S1 EXCEPT !.lastRecvMsgNum = num.val],
              out |-> opened.pt, keyErr |-> Nil, zeroed |-> TRUE]

\* Faulty variant of Decrypt: the input is parsed before established is
\* tested.
Decrypt_ParseFirst(S, input) ==
    LET parts == SplitN2(input)
        num == ParseUint(parts[1])
        dec == Base64Decode(parts[2])
        k == GetRecvKey(S.ratchet, num.val)
        S1 == [S EXCEPT !.ratchet = k.ratchet]
        opened == AeadDecrypt(dec.bytes, k.key)
    IN  IF Len(parts) # 2
        THEN [NoCall EXCEPT !.err = "InvalidFormat"] @@ [sess |-> S]
        ELSE IF num.err # Nil
        THEN [NoCall EXCEPT !.err = "InvalidMessageNumber"] @@ [sess |-> S]
        ELSE IF dec.err # Nil
        THEN [NoCall EXCEPT !.err = "InvalidEncoding", !.msgNum = num.val] @@ [sess |-> S]
        ELSE IF ~S.established
        THEN [NoCall EXCEPT !.err = "NotEstablished"] @@ [sess |-> S]
        ELSE IF k.err # Nil
        THEN [NoCall EXCEPT !.err = k.err, !.msgNum = num.val, !.keyErr = k.err]
             @@ [sess |-> S1]
        ELSE IF opened.err # Nil
        THEN [key |-> k.key, err |-> opened.err, msgNum |-> num.val,
              sess |-> S1, out |-> <<>>, keyErr |-> Nil, zeroed |-> FALSE]
        ELSE [key |-> k.key, err |-> Nil, msgNum |-> num.val,
              sess |-> [S1 EXCEPT !.lastRecvMsgNum = num.val],
              out |-> opened.pt, keyErr |-> Nil, zeroed |-> TRUE]

\* Faulty variant of Decrypt: the message number is stored before the AEAD
\* step.
Decrypt_StoreEarly(S, input) ==
    LET parts == SplitN2(input)
        num == ParseUint(parts[1])
        dec == Base64Decode(parts[2])
        k == GetRecvKey(S.ratchet, num.val)
        S1 == [S EXCEPT !.ratchet = k.ratchet]
        opened == AeadDecrypt(dec.bytes, k.key)
    IN  IF ~S.established
        THEN [NoCall EXCEPT !.err = "NotEstablished"] @@ [sess |-> S]
        ELSE IF Len(parts) # 2
        THEN [NoCall EXCEPT !.err = "InvalidFormat"] @@ [sess |-> S]
        ELSE IF num.err # Nil
        THEN [NoCall EXCEPT !.err = "InvalidMessageNumber"] @@ [sess |-> S]
        ELSE IF dec.err # Nil
        THEN [NoCall EXCEPT !.err = "InvalidEncoding", !.msgNum = num.val] @@ [sess |-> S]
        ELSE IF k.err # Nil
        THEN [NoCall EXCEPT !.err = k.err, !.msgNum = num.val, !.keyErr = k.err]
             @@ [sess |-> S1]
        ELSE IF opened.err # Nil
        THEN [key |-> k.key, err |-> opened.err, msgNum |-> num.val,
              sess |-> [S1 EXCEPT !.lastRecvMsgNum = num.val],
              out |-> <<>>, keyErr |-> Nil, zeroed |-> FALSE]
        ELSE [key |-> k.key, err |-> Nil, msgNum |-> num.val,
              sess |-> [S1 EXCEPT !.lastRecvMsgNum = num.val],
              out |-> opened.pt, keyErr |-> Nil, zeroed |-> TRUE]

\* Faulty variant of Decrypt: the ratchet is asked for the key before the
\* body is decoded from base64.
Decrypt_KeyBeforeDecode(S, input) ==
    LET parts == SplitN2(input)
        num == ParseUint(parts[1])
        dec == Base64Decode(parts[2])
        k == GetRecvKey(S.ratchet, num.val)
        S1 == [S EXCEPT !.ratchet = k.ratchet]
        opened == AeadDecrypt(dec.bytes, k.key)
    IN  IF ~S.established
        THEN [NoCall EXCEPT !.err = "NotEstablished"] @@ [sess |-> S]
        ELSE IF Len(parts) # 2
        THEN [NoCall EXCEPT !.err = "InvalidFormat"] @@ [sess |-> S]
        ELSE IF num.err # Nil
        THEN [NoCall EXCEPT !.err = "InvalidMessageNumber"] @@ [sess |-> S]
        ELSE IF k.err # Nil
        THEN [NoCall EXCEPT !.err = k.err, !.msgNum = num.val, !.keyErr = k.err]
             @@ [sess |-> S1]
        ELSE IF dec.err # Nil
        THEN [NoCall EXCEPT !.err = "InvalidEncoding", !.msgNum = num.val] @@ [sess |-> S1]
        ELSE IF opened.err # Nil
        THEN [key |-> k.key, err |-> opened.err, msgNum |-> num.val,
              sess |-> S1, out |-> <<>>, keyErr |-> Nil, zeroed |-> FALSE]
        ELSE [key |-> k.key, err |-> Nil, msgNum |-> num.val,
              sess |-> [S1 EXCEPT !.lastRecvMsgNum = num.val],
              out |-> opened.pt, keyErr |-> Nil, zeroed |-> TRUE]

\* Session.Decrypt
Decrypt(S, input) ==
    LET parts == SplitN2(input)
        num == ParseUint(parts[1])
        dec == Base64Decode(parts[2])
        k == GetRecvKey(S.ratchet, num.val)
        S1 == [S EXCEPT !.ratchet = k.ratchet]
        opened == AeadDecrypt(dec.bytes, k.key)
    IN  IF ~S.established
        THEN [NoCall EXCEPT !.err = "NotEstablished"] @@ [sess |-> S]
        ELSE IF Len(parts) # 2
        THEN [NoCall EXCEPT !.err = "InvalidFormat"] @@ [sess |-> S]
        ELSE IF num.err # Nil
        THEN [NoCall EXCEPT !.err = "InvalidMessageNumber"] @@ [sess |-> S]
        ELSE IF dec.err # Nil
        THEN [NoCall EXCEPT !.err = "InvalidEncoding", !.msgNum = num.val] @@ [sess |-> S]
        ELSE IF k.err # Nil
        THEN [NoCall EXCEPT !.err = k.err, !.msgNum = num.val, !.keyErr = k.err]
             @@ [sess |-> S1]
        ELSE IF opened.err # Nil
        THEN [key |-> k.key, err |-> opened.err, msgNum |-> num.val,
              sess |-> S1, out |-> <<>>, keyErr |-> Nil, zeroed |-> FALSE]
        ELSE [key |-> k.key, err |-> Nil, msgNum |-> num.val,
              sess |-> [S1 EXCEPT !.lastRecvMsgNum = num.val],
              out |-> opened.pt, keyErr |-> Nil, zeroed |-> TRUE]

\* Session.IsEstablished
IsEstablished(S) == S.established

\* Session.GetLastRecvMsgNum
GetLastRecvMsgNum(S) == S.lastRecvMsgNum

\* Faulty variant of GetVerificationWords: established is not tested.
GetVerificationWords_NoCheck(S) == GenerateVerificationWords(S.aesKey)

\* Session.GetVerificationWords; <<>> is the nil slice
GetVerificationWords(S) ==
    IF ~S.established \/ S.aesKey = NoAesKey THEN <<>>
    ELSE GenerateVerificationWords(S.aesKey)

\* Faulty variant of GetMessageStats: the two counters are exchanged.
GetMessageStats_Swapped(S) ==
    IF ~S.ratchet.alloc THEN <<0, 0>>
    ELSE <<S.ratchet.recvMsgNum, S.ratchet.sendMsgNum>>

\* Session.GetMessageStats
GetMessageStats(S) ==
    IF ~S.ratchet.alloc THEN <<0, 0>>
    ELSE <<S.ratchet.sendMsgNum, S.ratchet.recvMsgNum>>

\* main: the prompt of the interactive loop, fmt.Sprintf("[#%d] > ", n) or "> "
PlainPrompt == <<Ch(">"), Ch(" ")>>
NumberPrompt(n) ==
    <<Ch("["), Ch("#")>> \o FormatUint(n) \o <<Ch("]"), Ch(" "), Ch(">"), Ch(" ")>>
Prompt(S) ==
    IF IsEstablished(S) /\ GetMessageStats(S)[2] > 0
    THEN NumberPrompt(GetLastRecvMsgNum(S))
    ELSE PlainPrompt

(***************************************************************************)
(* The state: the two sessions, the wire strings the network still holds,  *)
(* the last call with what it returned, and the history the properties     *)
(* speak about.                                                            *)
(***************************************************************************)
VARIABLES
    session,      \* session[p]: the Session object of peer p
    net,          \* the wire strings in flight: [from, wire]
    lastOp,       \* the last call: its input, its result, the session before it
    hsCount,      \* hsCount[p]: successful SetPeerPublicKey calls on p
    encCount,     \* encCount[p]: successful Encrypt calls on p
    sentOn,       \* sentOn[p]: NextSendKey calls on p's current Ratchet object
    usedKeys,     \* usedKeys[p]: the message keys p has sealed a message with
    returned,     \* returned[p]: the numbers GetRecvKey has answered on p's ratchet
    burned,       \* burned[p]: the numbers of the Decrypt calls that failed in AEAD
    delivered,    \* delivered[p]: the wire strings p has decrypted
    failed,       \* a Decrypt call has returned an error
    lastGood,     \* lastGood[p]: <<n>>, n the number of p's latest successful Decrypt
    injected,     \* Decrypt calls so far on inputs no peer's Encrypt produced
    pc,           \* pc[t]: where thread t stands inside its call on the shared Session
    tmp,          \* tmp[t]: the call of thread t and its local variables
    mu,           \* Ratchet.mu of the shared session: the thread that holds it, or Nil
    handed        \* what NextSendKey has returned on the shared ratchet, in order

vars == <<session, net, lastOp, hsCount, encCount, sentOn, usedKeys, returned,
          burned, delivered, failed, lastGood, injected, pc, tmp, mu, handed>>

\* "invalid-base64!" and "dGVzdA==" (base64 of "test")
BadBase64 == <<Ch("!")>>
NotAPoint == Base64Encode(RawBytes(<<116, 101, 115, 116>>))

\* each session made exactly one handshake, with the other's public key
Paired ==
    \A p \in Peers :
        /\ hsCount[p] = 1
        /\ session[p].established
        /\ session[p].peerPubKey = session[Other(p)].publicKey

\* the errors Decrypt returns while it parses its input
FramingErrors == {"InvalidFormat", "InvalidMessageNumber", "InvalidEncoding"}

RECURSIVE LeadingDigits(_, _, _)
LeadingDigits(s, i, acc) ==
    IF i > Len(s) \/ ~IsDigit(s[i]) THEN acc
    ELSE LeadingDigits(s, i + 1, acc * 10 + DigitVal(s[i]))

\* the message number a string starts with, -1 if it starts with no digit
LeadingNumber(s) ==
    IF Len(s) = 0 \/ ~IsDigit(s[1]) THEN 0 - 1 ELSE LeadingDigits(s, 1, 0)

\* the threads of one process that share the Session of peer Shared
Threads == {"t1", "t2"}
Shared == "A"

NoOp ==
    [key |-> NoMsgKey, err |-> Nil, input |-> <<>>, msgNum |-> 0, out |-> <<>>,
     keyErr |-> "none", zeroed |-> FALSE, op |-> "NewSession", who |-> "A", pre |-> NewSession(1),
     genuine |-> FALSE, fresh |-> FALSE, clean |-> FALSE, seen |-> FALSE,
     replay |-> FALSE, burnt |-> FALSE, afterFail |-> FALSE, reused |-> FALSE,
     sends |-> 0, again |-> FALSE, afterFrame |-> FALSE]

Init ==
    /\ \E a \in {1, 2} :
          session = [p \in Peers |-> NewSession(IF p = "A" THEN a ELSE 3 - a)]
    /\ net = {}
    /\ lastOp = NoOp
    /\ hsCount = [p \in Peers |-> 0]
    /\ encCount = [p \in Peers |-> 0]
    /\ sentOn = [p \in Peers |-> 0]
    /\ usedKeys = [p \in Peers |-> {}]
    /\ returned = [p \in Peers |-> {}]
    /\ burned = [p \in Peers |-> {}]
    /\ delivered = [p \in Peers |-> {}]
    /\ failed = FALSE
    /\ lastGood = [p \in Peers |-> <<>>]
    /\ injected = 0
    /\ pc = [t \in Threads |-> "idle"]
    /\ tmp = [t \in Threads |-> NoOp]
    /\ mu = Nil
    /\ handed = <<>>

\* p calls SetPeerPublicKey(base64Key)
CallSetPeerPublicKey(p, base64Key) ==
    LET r == SetPeerPublicKey(session[p], base64Key)
    IN  /\ session' = [session EXCEPT ![p] = r.sess]
        /\ lastOp' = [NoOp EXCEPT !.op = "SetPeerPublicKey", !.who = p,
                                  !.input = base64Key, !.err = r.err,
                                  !.pre = session[p]]
        /\ hsCount' = IF r.err = Nil THEN [hsCount EXCEPT ![p] = @ + 1] ELSE hsCount
        \* a successful call installs a new Ratchet object
        /\ returned' = IF r.err = Nil THEN [returned EXCEPT ![p] = {}] ELSE returned
        /\ sentOn' = IF r.err = Nil THEN [sentOn EXCEPT ![p] = 0] ELSE sentOn
        /\ UNCHANGED <<net, encCount, usedKeys, burned, delivered, failed, lastGood,
                       injected, pc, tmp, mu, handed>>

\* p calls Encrypt(plaintext); the network keeps the output or loses it
CallEncrypt(p, plaintext, nonce, keep) ==
    LET r == Encrypt(session[p], plaintext, nonce)
    IN  /\ session' = [session EXCEPT ![p] = r.sess]
        /\ lastOp' = [NoOp EXCEPT !.op = "Encrypt", !.who = p, !.input = plaintext,
                                  !.err = r.err, !.out = r.out, !.msgNum = r.msgNum,
                                  !.key = r.key, !.zeroed = r.zeroed,
                                  !.pre = session[p],
                                  !.reused = (r.err = Nil /\ r.key \in usedKeys[p]),
                                  !.sends = encCount[p],
                                  !.again = /\ r.err = Nil
                                            /\ [from |-> p, wire |-> r.out] \in net]
        /\ net' = IF r.err = Nil /\ keep
                  THEN net \cup {[from |-> p, wire |-> r.out]} ELSE net
        /\ encCount' = IF r.err = Nil THEN [encCount EXCEPT ![p] = @ + 1] ELSE encCount
        /\ sentOn' = IF r.key # NoMsgKey THEN [sentOn EXCEPT ![p] = @ + 1] ELSE sentOn
        /\ usedKeys' = IF r.err = Nil
                       THEN [usedKeys EXCEPT ![p] = @ \cup {r.key}] ELSE usedKeys
        /\ UNCHANGED <<hsCount, returned, burned, delivered, failed, lastGood,
                       injected, pc, tmp, mu, handed>>

\* p calls Decrypt(input); genuine: input is a wire string of the peer's Encrypt
CallDecrypt(p, input, genuine) ==
    LET r == Decrypt(session[p], input)
    IN  /\ session' = [session EXCEPT ![p] = r.sess]
        /\ lastOp' = [NoOp EXCEPT
              !.op = "Decrypt", !.who = p, !.input = input, !.err = r.err,
              !.out = r.out, !.msgNum = r.msgNum, !.keyErr = r.keyErr,
              !.key = r.key, !.zeroed = r.zeroed, !.pre = session[p],
              !.genuine = genuine,
              !.fresh = /\ lastOp.op = "Encrypt" /\ lastOp.who = Other(p)
                        /\ lastOp.err = Nil /\ lastOp.out = input,
              !.clean = Paired /\ ~failed,
              !.seen = input \in delivered[p],
              !.replay = r.msgNum \in returned[p],
              !.burnt = r.msgNum \in burned[p],
              !.afterFail = burned[p] # {},
              !.sends = encCount[Other(p)],
              !.afterFrame = /\ lastOp.op = "Decrypt" /\ lastOp.who = p
                             /\ lastOp.pre.established
                             /\ lastOp.err \in FramingErrors
                             /\ LeadingNumber(lastOp.input) = r.msgNum]
        /\ returned' = IF r.keyErr = Nil
                       THEN [returned EXCEPT ![p] = @ \cup {r.msgNum}] ELSE returned
        /\ burned' = IF r.keyErr = Nil /\ r.err # Nil
                     THEN [burned EXCEPT ![p] = @ \cup {r.msgNum}] ELSE burned
        /\ delivered' = IF r.err = Nil
                        THEN [delivered EXCEPT ![p] = @ \cup {input}] ELSE delivered
        /\ failed' = (failed \/ r.err # Nil)
        /\ lastGood' = IF r.err = Nil
                       THEN [lastGood EXCEPT ![p] = <<r.msgNum>>] ELSE lastGood
        /\ UNCHANGED <<net, hsCount, encCount, sentOn, usedKeys, pc, tmp, mu, handed>>

(***************************************************************************)
(* The inputs of the calls.                                                *)
(***************************************************************************)
\* the peer's public key, "invalid-base64!", "dGVzdA=="
KeyInputs(p) == {GetPublicKeyBase64(session[Other(p)]), BadBase64, NotAPoint}

\* what Encrypt is given and what rand.Read returns for the nonce
SendInputs ==
    {[nonce |-> 0, pt |-> <<"m", "0">>], [nonce |-> 1, pt |-> <<"m", "0">>],
     [nonce |-> 0, pt |-> <<"m", "1">>]}

\* a wire string with a body that no Encrypt produced
JunkWire(n) == FormatWire(n, JunkBytes(nonceSize + tagSize + 2))

\* strings that fail to parse: no space, no number, no base64
Malformed == {<<Ch("!")>>, <<Ch("!"), Ch(" ")>>, <<Ch("0"), Ch(" "), Ch("!")>>}

Calls == hsCount["A"] + hsCount["B"]
Sends == encCount["A"] + encCount["B"]

(***************************************************************************)
(* Spec: both peers import keys, encrypt and decrypt; the network delivers *)
(* any message in flight, any number of times, in any order, and an        *)
(* attacker injects wire strings of its own.                               *)
(***************************************************************************)
ForgedNums == {0, 1, 3}

Handshake ==
    \E p \in Peers : \E k \in KeyInputs(p) :
        /\ Calls < MaxHandshakes
        /\ CallSetPeerPublicKey(p, k)

Send ==
    \E p \in Peers : \E i \in SendInputs :
        /\ Sends < MaxSend
        /\ CallEncrypt(p, i.pt, i.nonce, TRUE)

Deliver ==
    \E p \in Peers : \E m \in net :
        /\ m.from = Other(p)
        /\ CallDecrypt(p, m.wire, TRUE)
        /\ UNCHANGED injected

Inject ==
    \E p \in Peers : \E w \in {JunkWire(n) : n \in ForgedNums} \cup Malformed :
        /\ injected < MaxInject
        /\ CallDecrypt(p, w, FALSE)
        /\ injected' = injected + 1

Next == Handshake \/ Send \/ Deliver \/ Inject

Spec == Init /\ [][Next]_vars

(***************************************************************************)
(* SpecSkip: one receiver, B, at the edge of the skip bound: the attacker  *)
(* injects message numbers around maxSkip ahead of the receive counter.    *)
(***************************************************************************)
SkipNums == {maxSkip - 1, maxSkip, maxSkip + 1, maxSkip + 2, 2 * maxSkip + 1}

FirstHandshake ==
    \E p \in Peers :
        /\ ~session[p].established
        /\ CallSetPeerPublicKey(p, GetPublicKeyBase64(session[Other(p)]))

SendToB ==
    \E i \in SendInputs :
        /\ encCount["A"] < MaxSend
        /\ CallEncrypt("A", i.pt, i.nonce, TRUE)

DeliverToB ==
    \E m \in net :
        /\ m.from = "A"
        /\ CallDecrypt("B", m.wire, TRUE)
        /\ UNCHANGED injected

InjectSkip ==
    \E n \in SkipNums :
        /\ injected < MaxInject
        /\ CallDecrypt("B", JunkWire(n), FALSE)
        /\ injected' = injected + 1

NextSkip == FirstHandshake \/ SendToB \/ DeliverToB \/ InjectSkip

SpecSkip == Init /\ [][NextSkip]_vars

(***************************************************************************)
(* SpecLong: A sends a long run of messages to B.  The network loses the   *)
(* messages whose number is not in Tracked and delivers the others to B,   *)
(* any number of times, in any order.                                      *)
(***************************************************************************)
Tracked == {0, 1, maxSkip, maxSkip + 1}

SendLong ==
    \E i \in SendInputs :
        /\ encCount["A"] < MaxSendLong
        /\ i.nonce = 0
        /\ CallEncrypt("A", i.pt, i.nonce, encCount["A"] \in Tracked)

NextLong == FirstHandshake \/ SendLong \/ DeliverToB

SpecLong == Init /\ [][NextLong]_vars

(***************************************************************************)
(* SpecTamper: both peers send, and the network delivers each message as   *)
(* it is or with one bit of its AEAD body altered: a bit of the nonce, of  *)
(* the encrypted plaintext, or of the tag.                                 *)
(***************************************************************************)
BodyParts == {"nonce", "ciphertext", "tag"}

\* the byte string c, an output of crypto.Encrypt, with one bit of the named
\* part flipped: another nonce in front of the same box, or a body that
\* gcm.Seal did not produce
FlipBit(c, part) ==
    IF part = "nonce"
    THEN [c EXCEPT !.nonce = IF c.nonce % 2 = 0 THEN c.nonce + 1 ELSE c.nonce - 1]
    ELSE [c EXCEPT !.kind = "junk"]

\* the wire string with the same number and the altered body
TamperWire(wire, part) ==
    FormatWire(ParseUint(SplitN2(wire)[1]).val,
               FlipBit(Base64Decode(SplitN2(wire)[2]).bytes, part))

Tamper ==
    \E p \in Peers : \E m \in net : \E part \in BodyParts :
        /\ m.from = Other(p)
        /\ injected < MaxInject
        /\ CallDecrypt(p, TamperWire(m.wire, part), FALSE)
        /\ injected' = injected + 1

NextTamper == FirstHandshake \/ Send \/ Deliver \/ Tamper

SpecTamper == Init /\ [][NextTamper]_vars

(***************************************************************************)
(* SpecRekey: both peers import each other's key, more than once, send the *)
(* same plaintext again and again, and decrypt what the network holds.     *)
(* rand.Read never returns the same nonce twice.                           *)
(***************************************************************************)
Rekey ==
    \E p \in Peers :
        /\ Calls < MaxRekey
        /\ CallSetPeerPublicKey(p, GetPublicKeyBase64(session[Other(p)]))

SendSame ==
    \E p \in Peers :
        /\ Sends < MaxSend
        /\ CallEncrypt(p, <<"m", "0">>, Sends, TRUE)

NextRekey == Rekey \/ SendSame \/ Deliver

SpecRekey == Init /\ [][NextRekey]_vars

(***************************************************************************)
(* SpecRand: as Spec without the attacker, on a machine whose random       *)
(* source may fail: rand.Read inside crypto.Encrypt returns a nonce or an  *)
(* error.                                                                  *)
(***************************************************************************)
SendRand ==
    \E p \in Peers : \E nonce \in {0, NoNonce} :
        /\ sentOn["A"] + sentOn["B"] < MaxSend
        /\ CallEncrypt(p, <<"m", "0">>, nonce, TRUE)

NextRand == FirstHandshake \/ SendRand \/ Deliver

SpecRand == Init /\ [][NextRand]_vars

(***************************************************************************)
(* SpecFrame: both peers send, and the network delivers each message as it *)
(* is or with its framing damaged: the space removed, a character that is  *)
(* no digit put behind the number, the number raised by 2^w, or a          *)
(* character outside the base64 alphabet put behind the body.              *)
(***************************************************************************)
Damages == {"nospace", "nonumber", "range", "nobase64"}

DamageWire(wire, how) ==
    LET num == SplitN2(wire)[1]
        body == SplitN2(wire)[2]
    IN  CASE how = "nospace" -> num \o body
          [] how = "nonumber" -> num \o <<Ch("!"), Ch(" ")>> \o body
          [] how = "range" -> FormatUint(ParseUint(num).val + Uint32) \o <<Ch(" ")>> \o body
          [] how = "nobase64" -> num \o <<Ch(" ")>> \o body \o <<Ch("!")>>

Damage ==
    \E p \in Peers : \E m \in net : \E how \in Damages :
        /\ m.from = Other(p)
        /\ injected < MaxInject
        /\ CallDecrypt(p, DamageWire(m.wire, how), FALSE)
        /\ injected' = injected + 1

NextFrame == FirstHandshake \/ Send \/ Deliver \/ Damage

SpecFrame == Init /\ [][NextFrame]_vars

(***************************************************************************)
(* SpecShort: as SpecRekey, and an attacker injects wire strings whose     *)
(* body is too short to hold a nonce and a tag: empty, one byte short of a *)
(* nonce, a nonce alone, one byte short of a nonce and a tag.              *)
(***************************************************************************)
ShortLens == {0, nonceSize - 1, nonceSize, nonceSize + tagSize - 1}

InjectShort ==
    \E p \in Peers : \E n \in {0, 1} : \E len \in ShortLens :
        /\ injected < MaxInject
        /\ CallDecrypt(p, FormatWire(n, JunkBytes(len)), FALSE)
        /\ injected' = injected + 1

NextShort == Rekey \/ SendSame \/ Deliver \/ InjectShort

SpecShort == Init /\ [][NextShort]_vars

(***************************************************************************)
(* SpecWrap: a long-lived pair of sessions.  B is given forged wire        *)
(* strings whose numbers run ahead of recvMsgNum by maxSkip, up to the     *)
(* largest number of the type, and again the number it accepted first; A   *)
(* encrypts until sendMsgNum has taken every value of its type and one     *)
(* more.  The two sessions do not act on each other here, and the calls of *)
(* B are taken before those of A.                                          *)
(***************************************************************************)
SendWrap ==
    /\ sentOn["A"] <= Uint32
    /\ CallEncrypt("A", <<"m", "0">>, 0, FALSE)

\* the largest number within reach of the receive counter
FarthestNum(r) ==
    IF r.recvMsgNum + maxSkip < Uint32 THEN r.recvMsgNum + maxSkip ELSE Uint32 - 1

SkipWrap ==
    \E n \in {FarthestNum(session["B"].ratchet), maxSkip} :
        /\ session["B"].established
        /\ sentOn["A"] = 0
        /\ injected < MaxJump
        /\ CallDecrypt("B", JunkWire(n), FALSE)
        /\ injected' = injected + 1

NextWrap == FirstHandshake \/ SendWrap \/ SkipWrap

SpecWrap == Init /\ [][NextWrap]_vars

(***************************************************************************)
(* SpecRenumber: as SpecRekey, and the network delivers the body of a      *)
(* message under a number other than the one it was sent with: a number    *)
(* near the receive counter or one out of its reach.                       *)
(***************************************************************************)
OtherNums == {0, 1, 2, 2 * maxSkip + 1}

\* the wire string with the same body and the number j
RenumberWire(wire, j) == FormatWire(j, Base64Decode(SplitN2(wire)[2]).bytes)

Renumber ==
    \E p \in Peers : \E m \in net : \E j \in OtherNums :
        /\ m.from = Other(p)
        /\ j # ParseUint(SplitN2(m.wire)[1]).val
        /\ injected < MaxInject
        /\ CallDecrypt(p, RenumberWire(m.wire, j), FALSE)
        /\ injected' = injected + 1

NextRenumber == Rekey \/ SendSame \/ Deliver \/ Renumber

SpecRenumber == Init /\ [][NextRenumber]_vars

(***************************************************************************)
(* SpecThreads: two threads of one process call Encrypt and Decrypt on the *)
(* Session of peer Shared.  Session has no lock of its own; Ratchet.mu is  *)
(* held inside NextSendKey and inside GetRecvKey only.  A call is therefore*)
(* a sequence of steps: the test of established and the parsing, the       *)
(* ratchet step under Ratchet.mu, the AEAD step with the formatting, and,  *)
(* in Decrypt, the store to lastRecvMsgNum.  The peer is single-threaded.  *)
(***************************************************************************)
\* Encrypt calls of the threads that have not reached NextSendKey yet
Entering == Cardinality({u \in Threads : pc[u] = "key" /\ tmp[u].op = "Encrypt"})

\* Session.Encrypt up to the call of NextSendKey
EnterEncrypt(t) ==
    /\ pc[t] = "idle"
    /\ sentOn[Shared] + Entering < MaxSend
    /\ IF ~session[Shared].established
       THEN CallEncrypt(Shared, <<"m", "0">>, 0, TRUE)
       ELSE /\ pc' = [pc EXCEPT ![t] = "key"]
            /\ tmp' = [tmp EXCEPT ![t] =
                          [NoOp EXCEPT !.op = "Encrypt", !.who = Shared,
                                       !.input = <<"m", "0">>,
                                       !.pre = session[Shared]]]
            /\ UNCHANGED <<session, net, lastOp, hsCount, encCount, sentOn,
                           usedKeys, returned, burned, delivered, failed,
                           lastGood, injected, mu, handed>>

\* Session.Decrypt up to the call of GetRecvKey; the input is a wire string
\* of the peer, so the parsing succeeds
EnterDecrypt(t) ==
    \E m \in net :
        /\ pc[t] = "idle"
        /\ m.from = Other(Shared)
        /\ IF ~session[Shared].established
           THEN CallDecrypt(Shared, m.wire, TRUE) /\ UNCHANGED injected
           ELSE /\ pc' = [pc EXCEPT ![t] = "key"]
                /\ tmp' = [tmp EXCEPT ![t] =
                              [NoOp EXCEPT !.op = "Decrypt", !.who = Shared,
                                           !.input = m.wire, !.genuine = TRUE,
                                           !.msgNum = ParseUint(SplitN2(m.wire)[1]).val,
                                           !.pre = session[Shared]]]
                /\ UNCHANGED <<session, net, lastOp, hsCount, encCount, sentOn,
                               usedKeys, returned, burned, delivered, failed,
                               lastGood, injected, mu, handed>>

\* s.ratchet.NextSendKey() or s.ratchet.GetRecvKey(msgNum), under Ratchet.mu
KeyStep(t) ==
    /\ pc[t] = "key"
    /\ IF tmp[t].op = "Encrypt"
       THEN LET k == NextSendKey(session[Shared].ratchet)
            IN  /\ session' = [session EXCEPT ![Shared].ratchet = k.ratchet]
                /\ tmp' = [tmp EXCEPT ![t].key = k.msgKey, ![t].msgNum = k.msgNum]
                /\ sentOn' = [sentOn EXCEPT ![Shared] = @ + 1]
                /\ pc' = [pc EXCEPT ![t] = "aead"]
                /\ UNCHANGED <<lastOp, returned, failed>>
       ELSE LET k == GetRecvKey(session[Shared].ratchet, tmp[t].msgNum)
            IN  /\ session' = [session EXCEPT ![Shared].ratchet = k.ratchet]
                /\ tmp' = [tmp EXCEPT ![t].key = k.key, ![t].keyErr = k.err]
                /\ returned' = IF k.err = Nil
                               THEN [returned EXCEPT ![Shared] = @ \cup {tmp[t].msgNum}]
                               ELSE returned
                /\ lastOp' = IF k.err = Nil THEN lastOp
                             ELSE [tmp[t] EXCEPT !.err = k.err, !.keyErr = k.err]
                /\ failed' = (failed \/ k.err # Nil)
                /\ pc' = [pc EXCEPT ![t] = IF k.err = Nil THEN "aead" ELSE "idle"]
                /\ UNCHANGED sentOn
    /\ UNCHANGED <<net, hsCount, encCount, usedKeys, burned, delivered, lastGood,
                   injected, mu, handed>>

\* crypto.Encrypt and the formatting of the wire string, or crypto.Decrypt
AeadStep(t) ==
    /\ pc[t] = "aead"
    /\ IF tmp[t].op = "Encrypt"
       THEN LET out == FormatWire(tmp[t].msgNum,
                                  AeadEncrypt(tmp[t].input, tmp[t].key, 0))
            IN  /\ lastOp' = [tmp[t] EXCEPT !.out = out, !.zeroed = TRUE]
                /\ net' = net \cup {[from |-> Shared, wire |-> out]}
                /\ encCount' = [encCount EXCEPT ![Shared] = @ + 1]
                /\ usedKeys' = [usedKeys EXCEPT ![Shared] = @ \cup {tmp[t].key}]
                /\ pc' = [pc EXCEPT ![t] = "idle"]
                /\ UNCHANGED <<tmp, burned, failed>>
       ELSE LET opened == AeadDecrypt(Base64Decode(SplitN2(tmp[t].input)[2]).bytes,
                                      tmp[t].key)
            IN  /\ tmp' = [tmp EXCEPT ![t].out = opened.pt,
                                      ![t].zeroed = (opened.err = Nil)]
                /\ lastOp' = IF opened.err = Nil THEN lastOp
                             ELSE [tmp[t] EXCEPT !.err = opened.err]
                /\ burned' = IF opened.err = Nil THEN burned
                             ELSE [burned EXCEPT ![Shared] = @ \cup {tmp[t].msgNum}]
                /\ failed' = (failed \/ opened.err # Nil)
                /\ pc' = [pc EXCEPT ![t] = IF opened.err = Nil THEN "store" ELSE "idle"]
                /\ UNCHANGED <<net, encCount, usedKeys>>
    /\ UNCHANGED <<session, hsCount, sentOn, returned, delivered, lastGood, injected,
                   mu, handed>>

\* s.lastRecvMsgNum = uint32(msgNum), and the return of the plaintext
StoreStep(t) ==
    /\ pc[t] = "store"
    /\ session' = [session EXCEPT ![Shared].lastRecvMsgNum = tmp[t].msgNum]
    /\ lastOp' = tmp[t]
    /\ delivered' = [delivered EXCEPT ![Shared] = @ \cup {tmp[t].input}]
    /\ lastGood' = [lastGood EXCEPT ![Shared] = <<tmp[t].msgNum>>]
    /\ pc' = [pc EXCEPT ![t] = "idle"]
    /\ UNCHANGED <<net, hsCount, encCount, sentOn, usedKeys, returned, burned,
                   failed, injected, tmp, mu, handed>>

\* the peer encrypts a message for the shared session
SendToShared ==
    /\ encCount[Other(Shared)] < MaxSend
    /\ CallEncrypt(Other(Shared), <<"m", "1">>, 0, TRUE)

ThreadEncrypts == \E t \in Threads : EnterEncrypt(t)
ThreadDecrypts == \E t \in Threads : EnterDecrypt(t)
ThreadAsksKey == \E t \in Threads : KeyStep(t)
ThreadSealsOrOpens == \E t \in Threads : AeadStep(t)
ThreadStores == \E t \in Threads : StoreStep(t)

NextThreads ==
    \/ FirstHandshake \/ SendToShared
    \/ ThreadEncrypts \/ ThreadDecrypts \/ ThreadAsksKey
    \/ ThreadSealsOrOpens \/ ThreadStores

SpecThreads == Init /\ [][NextThreads]_vars

(***************************************************************************)
(* SpecMutex: two threads call NextSendKey and GetRecvKey on the Ratchet   *)
(* of peer Shared.  Each call locks Ratchet.mu first and unlocks it when   *)
(* it returns (defer r.mu.Unlock()); between the two it is a sequence of   *)
(* reads and writes of the fields of the Ratchet, one statement a step.    *)
(* tmp[t] holds the locals of the call of thread t: msgNum, the message    *)
(* key (key) and the error (keyErr); newChainKey is the other output of    *)
(* the deriveKeys call that gave the message key.                          *)
(***************************************************************************)
\* the message numbers GetRecvKey is asked for
RecvNums == {0, 1, 2}

\* the calls made so far on the shared ratchet, and those under way
RatchetCalls ==
    Len(handed) + Cardinality(returned[Shared])
        + Cardinality({u \in Threads : pc[u] # "idle"})

\* newChainKey of the deriveKeys call that returned msgKey
NewChainKeyOf(msgKey) == deriveKeys(msgKey.chain, msgKey.num).newChainKey

\* Faulty variant of TryLock: the mutex is taken whoever holds it.
TryLock_NoExclusion(holder, t) == TRUE

\* r.mu.Lock() can return in thread t
TryLock(holder, t) == holder = Nil

\* thread t calls r.NextSendKey()
StartNextSendKey(t) ==
    /\ pc[t] = "idle"
    /\ session[Shared].established
    /\ RatchetCalls < MaxRatchetCalls
    /\ pc' = [pc EXCEPT ![t] = "lock"]
    /\ tmp' = [tmp EXCEPT ![t] = [NoOp EXCEPT !.op = "NextSendKey", !.who = Shared]]
    /\ UNCHANGED <<session, net, lastOp, hsCount, encCount, sentOn, usedKeys,
                   returned, burned, delivered, failed, lastGood, injected,
                   mu, handed>>

\* thread t calls r.GetRecvKey(msgNum)
StartGetRecvKey(t) ==
    \E msgNum \in RecvNums :
        /\ pc[t] = "idle"
        /\ session[Shared].established
        /\ RatchetCalls < MaxRatchetCalls
        /\ pc' = [pc EXCEPT ![t] = "lock"]
        /\ tmp' = [tmp EXCEPT ![t] = [NoOp EXCEPT !.op = "GetRecvKey", !.who = Shared,
                                                  !.msgNum = msgNum]]
        /\ UNCHANGED <<session, net, lastOp, hsCount, encCount, sentOn,
                       usedKeys, returned, burned, delivered, failed,
                       lastGood, injected, mu, handed>>

\* r.mu.Lock()
Lock(t) ==
    /\ pc[t] = "lock"
    /\ TryLock(mu, t)
    /\ mu' = t
    /\ pc' = [pc EXCEPT ![t] = IF tmp[t].op = "NextSendKey" THEN "sendDerive"
                                ELSE "lookup"]
    /\ UNCHANGED <<session, net, lastOp, hsCount, encCount, sentOn, usedKeys,
                   returned, burned, delivered, failed, lastGood, injected,
                   tmp, handed>>

\* msgKey, newChainKey, err := r.deriveKeys(r.sendChainKey, r.sendMsgNum)
SendDerive(t) ==
    /\ pc[t] = "sendDerive"
    /\ tmp' = [tmp EXCEPT ![t].key =
                  deriveKeys(session[Shared].ratchet.sendChainKey,
                             session[Shared].ratchet.sendMsgNum).msgKey]
    /\ pc' = [pc EXCEPT ![t] = "sendNum"]
    /\ UNCHANGED <<session, net, lastOp, hsCount, encCount, sentOn, usedKeys,
                   returned, burned, delivered, failed, lastGood, injected,
                   mu, handed>>

\* msgNum := r.sendMsgNum
SendNum(t) ==
    /\ pc[t] = "sendNum"
    /\ tmp' = [tmp EXCEPT ![t].msgNum = session[Shared].ratchet.sendMsgNum]
    /\ pc' = [pc EXCEPT ![t] = "sendChain"]
    /\ UNCHANGED <<session, net, lastOp, hsCount, encCount, sentOn, usedKeys,
                   returned, burned, delivered, failed, lastGood, injected,
                   mu, handed>>

\* r.sendChainKey = newChainKey
SendChain(t) ==
    /\ pc[t] = "sendChain"
    /\ session' = [session EXCEPT ![Shared].ratchet.sendChainKey =
                      NewChainKeyOf(tmp[t].key)]
    /\ pc' = [pc EXCEPT ![t] = "sendInc"]
    /\ UNCHANGED <<net, lastOp, hsCount, encCount, sentOn, usedKeys,
                   returned, burned, delivered, failed, lastGood, injected,
                   tmp, mu, handed>>

\* r.sendMsgNum++
SendInc(t) ==
    /\ pc[t] = "sendInc"
    /\ session' = [session EXCEPT ![Shared].ratchet.sendMsgNum = (@ + 1) % Uint32]
    /\ pc' = [pc EXCEPT ![t] = "sendReturn"]
    /\ UNCHANGED <<net, lastOp, hsCount, encCount, sentOn, usedKeys,
                   returned, burned, delivered, failed, lastGood, injected,
                   tmp, mu, handed>>

\* return msgKey, msgNum, nil, and the deferred r.mu.Unlock()
SendReturn(t) ==
    /\ pc[t] = "sendReturn"
    /\ handed' = Append(handed, [key |-> tmp[t].key, msgNum |-> tmp[t].msgNum])
    /\ mu' = IF mu = t THEN Nil ELSE mu
    /\ pc' = [pc EXCEPT ![t] = "idle"]
    /\ UNCHANGED <<session, net, lastOp, hsCount, encCount, sentOn, usedKeys,
                   returned, burned, delivered, failed, lastGood, injected,
                   tmp>>

\* if key, ok := r.skippedKeys[msgNum]; ok { delete(...); return key, nil }
Lookup(t) ==
    /\ pc[t] = "lookup"
    /\ IF tmp[t].msgNum \in DOMAIN session[Shared].ratchet.skippedKeys
       THEN /\ tmp' = [tmp EXCEPT ![t].key =
                          session[Shared].ratchet.skippedKeys[tmp[t].msgNum],
                                  ![t].keyErr = Nil]
            /\ session' = [session EXCEPT ![Shared].ratchet.skippedKeys =
                              MapDelete(@, tmp[t].msgNum)]
            /\ pc' = [pc EXCEPT ![t] = "recvReturn"]
       ELSE /\ pc' = [pc EXCEPT ![t] = "compare"]
            /\ UNCHANGED <<session, tmp>>
    /\ UNCHANGED <<net, lastOp, hsCount, encCount, sentOn, usedKeys,
                   returned, burned, delivered, failed, lastGood, injected,
                   mu, handed>>

\* the tests msgNum < r.recvMsgNum and msgNum-r.recvMsgNum > r.maxSkip
Compare(t) ==
    /\ pc[t] = "compare"
    /\ LET r == session[Shared].ratchet
           err == IF tmp[t].msgNum < r.recvMsgNum THEN "AlreadyReceived"
                  ELSE IF (tmp[t].msgNum - r.recvMsgNum) % Uint32 > r.maxSkip
                  THEN "TooManySkipped" ELSE Nil
       IN  /\ tmp' = [tmp EXCEPT ![t].keyErr = err]
           /\ pc' = [pc EXCEPT ![t] = IF err = Nil THEN "loop" ELSE "recvReturn"]
    /\ UNCHANGED <<session, net, lastOp, hsCount, encCount, sentOn, usedKeys,
                   returned, burned, delivered, failed, lastGood, injected,
                   mu, handed>>

\* the test of the loop, for r.recvMsgNum < msgNum, and the deriveKeys call
\* that follows it inside the loop or behind it
RecvDerive(t) ==
    /\ pc[t] = "loop"
    /\ tmp' = [tmp EXCEPT ![t].key =
                  deriveKeys(session[Shared].ratchet.recvChainKey,
                             session[Shared].ratchet.recvMsgNum).msgKey]
    /\ pc' = [pc EXCEPT ![t] = IF session[Shared].ratchet.recvMsgNum < tmp[t].msgNum
                                THEN "skipPut" ELSE "recvChain"]
    /\ UNCHANGED <<session, net, lastOp, hsCount, encCount, sentOn, usedKeys,
                   returned, burned, delivered, failed, lastGood, injected,
                   mu, handed>>

\* r.skippedKeys[r.recvMsgNum] = skipKey
SkipPut(t) ==
    /\ pc[t] = "skipPut"
    /\ session' = [session EXCEPT ![Shared].ratchet.skippedKeys =
                      MapPut(@, session[Shared].ratchet.recvMsgNum, tmp[t].key)]
    /\ pc' = [pc EXCEPT ![t] = "skipChain"]
    /\ UNCHANGED <<net, lastOp, hsCount, encCount, sentOn, usedKeys,
                   returned, burned, delivered, failed, lastGood, injected,
                   tmp, mu, handed>>

\* r.recvChainKey = newChainKey, inside the loop and behind it
RecvChain(t) ==
    /\ pc[t] \in {"skipChain", "recvChain"}
    /\ session' = [session EXCEPT ![Shared].ratchet.recvChainKey =
                      NewChainKeyOf(tmp[t].key)]
    /\ pc' = [pc EXCEPT ![t] = IF pc[t] = "skipChain" THEN "skipInc" ELSE "recvInc"]
    /\ UNCHANGED <<net, lastOp, hsCount, encCount, sentOn, usedKeys,
                   returned, burned, delivered, failed, lastGood, injected,
                   tmp, mu, handed>>

\* r.recvMsgNum++, inside the loop and behind it
RecvInc(t) ==
    /\ pc[t] \in {"skipInc", "recvInc"}
    /\ session' = [session EXCEPT ![Shared].ratchet.recvMsgNum = (@ + 1) % Uint32]
    /\ pc' = [pc EXCEPT ![t] = IF pc[t] = "skipInc" THEN "loop" ELSE "recvReturn"]
    /\ UNCHANGED <<net, lastOp, hsCount, encCount, sentOn, usedKeys,
                   returned, burned, delivered, failed, lastGood, injected,
                   tmp, mu, handed>>

\* return msgKey, nil or return nil, err, and the deferred r.mu.Unlock()
RecvReturn(t) ==
    /\ pc[t] = "recvReturn"
    /\ returned' = IF tmp[t].keyErr = Nil
                   THEN [returned EXCEPT ![Shared] = @ \cup {tmp[t].msgNum}]
                   ELSE returned
    /\ lastOp' = tmp[t]
    /\ mu' = IF mu = t THEN Nil ELSE mu
    /\ pc' = [pc EXCEPT ![t] = "idle"]
    /\ UNCHANGED <<session, net, hsCount, encCount, sentOn, usedKeys, burned,
                   delivered, failed, lastGood, injected, tmp, handed>>

NextMutex ==
    \/ FirstHandshake
    \/ \E t \in Threads :
           \/ StartNextSendKey(t) \/ StartGetRecvKey(t) \/ Lock(t)
           \/ SendDerive(t) \/ SendNum(t) \/ SendChain(t) \/ SendInc(t)
           \/ SendReturn(t)
           \/ Lookup(t) \/ Compare(t) \/ RecvDerive(t) \/ SkipPut(t)
           \/ RecvChain(t) \/ RecvInc(t) \/ RecvReturn(t)

SpecMutex == Init /\ [][NextMutex]_vars

(***************************************************************************)
(* What the properties read off a call.                                    *)
(***************************************************************************)
\* the plaintext and the number a wire string of Encrypt was made from
PlaintextOf(wire) == Base64Decode(SplitN2(wire)[2]).bytes.box.pt
NumberOf(wire) == ParseUint(SplitN2(wire)[1]).val

Decrypted == lastOp.op = "Decrypt"
\* the Decrypt call reached GetRecvKey
AskedKey == Decrypted /\ lastOp.keyErr # "none"
\* the Decrypt call returned the plaintext its input was made from
Recovered == lastOp.err = Nil /\ lastOp.out = PlaintextOf(lastOp.input)
\* how far the message number was ahead of the receive counter
Gap == lastOp.msgNum - lastOp.pre.ratchet.recvMsgNum
WasCached == lastOp.msgNum \in DOMAIN lastOp.pre.ratchet.skippedKeys

(***************************************************************************)
(* C1.  Round trip.                                                        *)
(***************************************************************************)
\* a Decrypt of the wire string the peer's Encrypt has just returned, the
\* two sessions having made one handshake each, with each other, and no
\* Decrypt having failed so far
FreshRoundTrip ==
    Decrypted /\ lastOp.genuine /\ lastOp.fresh /\ lastOp.clean

\* C1 as stated: B.Decrypt(A.Encrypt(m)) succeeds and returns m, whatever
\* encrypts and successful decrypts happened before.
C1_RoundTrip == FreshRoundTrip => Recovered

\* C1 as amended: B.Decrypt(A.Encrypt(m)) succeeds and returns m when the
\* number of the message is at most maxSkip ahead of B's receive counter.
C1_RoundTripWithinSkip == (FreshRoundTrip /\ Gap <= maxSkip) => Recovered

\* the round trip of a message exactly maxSkip ahead of the receive counter
C1_Witness == FreshRoundTrip /\ Gap = maxSkip /\ Recovered

(***************************************************************************)
(* C2.  Out-of-order tolerance.                                            *)
(***************************************************************************)
\* C2: when A has sent at most maxSkip + 1 messages, every first delivery
\* of one of them to B, in whatever order, succeeds and returns the
\* plaintext A encrypted under that number.
C2_OutOfOrder ==
    (/\ Decrypted /\ lastOp.genuine /\ lastOp.clean /\ ~lastOp.seen
     /\ lastOp.sends <= maxSkip + 1)
    => (Recovered /\ lastOp.msgNum = NumberOf(lastOp.input))

\* message 0 decrypted from the cache after message maxSkip went first
C2_Witness ==
    /\ Decrypted /\ lastOp.genuine /\ lastOp.clean /\ ~lastOp.seen
    /\ lastOp.sends = maxSkip + 1
    /\ lastOp.msgNum = 0 /\ lastOp.pre.ratchet.recvMsgNum = maxSkip + 1
    /\ Recovered

(***************************************************************************)
(* C3.  Replay rejection.                                                  *)
(***************************************************************************)
\* C3: a message number that GetRecvKey has answered once on a ratchet is
\* refused with "already received" at every later call on that ratchet.
C3_ReplayRejected == (AskedKey /\ lastOp.replay) => lastOp.keyErr = "AlreadyReceived"

\* a number below the counter, the cache being empty, is asked for a
\* second time and refused
C3_Witness ==
    /\ AskedKey /\ lastOp.replay /\ lastOp.keyErr = "AlreadyReceived"
    /\ lastOp.msgNum + 1 < lastOp.pre.ratchet.recvMsgNum
    /\ lastOp.pre.ratchet.skippedKeys = NoSkipped

(***************************************************************************)
(* C4.  Cache bound.                                                       *)
(***************************************************************************)
\* C4: skippedKeys never holds more than maxSkip entries.
C4_CacheBound ==
    \A p \in Peers : Cardinality(DOMAIN session[p].ratchet.skippedKeys) <= maxSkip

(***************************************************************************)
(* C5.  Send ordering.                                                     *)
(***************************************************************************)
\* C5: the k-th successful Encrypt of a session (k = 0, 1, ...) returns a
\* wire string that carries the message number k.
C5_SendOrdering ==
    (lastOp.op = "Encrypt" /\ lastOp.err = Nil) => NumberOf(lastOp.out) = lastOp.sends

(***************************************************************************)
(* C6.  An authentication failure consumes the index.                      *)
(***************************************************************************)
\* C6: once a Decrypt carrying number i has failed in the AEAD step, every
\* later Decrypt of that session carrying i fails with "already received".
C6_FailureConsumes == (AskedKey /\ lastOp.burnt) => lastOp.err = "AlreadyReceived"

(***************************************************************************)
(* C7.  The session survives an authentication failure.                    *)
(***************************************************************************)
\* a delivery of a message of the peer whose number is not yet consumed and
\* is within the skip bound, after a Decrypt of this session has failed in
\* the AEAD step
AfterFailure ==
    /\ Decrypted /\ lastOp.genuine /\ lastOp.afterFail
    /\ ~lastOp.replay
    /\ (WasCached \/ Gap <= maxSkip)

\* C7: after an authentication failure the session is still established
\* and such a message still decrypts to its plaintext.
C7_SurvivesFailure ==
    /\ (Decrypted /\ lastOp.pre.established) => session[lastOp.who].established
    /\ AfterFailure => Recovered

\* a skipped message below the failed number is decrypted from the cache
C7_Witness ==
    AfterFailure /\ WasCached /\ Recovered /\ \E i \in burned[lastOp.who] : lastOp.msgNum < i

(***************************************************************************)
(* C8.  Re-establishment.                                                  *)
(***************************************************************************)
\* C8: SetPeerPublicKey on an established session returns an error and
\* leaves the session as it was.
C8_ReestablishRejected ==
    (lastOp.op = "SetPeerPublicKey" /\ lastOp.pre.established)
    => (lastOp.err # Nil /\ session[lastOp.who] = lastOp.pre)

(***************************************************************************)
(* C9.  Single-use message keys.                                           *)
(***************************************************************************)
\* C9: no Encrypt passes to AEAD a message key that an earlier Encrypt of
\* the same session has passed to it.
C9_SingleUseKeys == lastOp.op = "Encrypt" => ~lastOp.reused

(***************************************************************************)
(* C10.  Skip threshold.                                                   *)
(***************************************************************************)
\* GetRecvKey is asked for a number that is not cached and not below the
\* receive counter
AheadOfCounter == AskedKey /\ ~WasCached /\ Gap >= 0

\* C10: such a call fails with "too many skipped messages" exactly when the
\* number is more than maxSkip ahead of the receive counter.
C10_SkipThreshold ==
    AheadOfCounter => (lastOp.keyErr = "TooManySkipped" <=> Gap > maxSkip)

\* a gap of exactly maxSkip is accepted, from a ratchet that has advanced
C10_Witness ==
    /\ AheadOfCounter /\ Gap = maxSkip /\ lastOp.keyErr = Nil
    /\ lastOp.pre.ratchet.recvMsgNum > 0

(***************************************************************************)
(* C11.  Failure atomicity of the ratchet.                                 *)
(***************************************************************************)
\* the Decrypt call reached GetRecvKey and GetRecvKey returned an error
KeyRefused == AskedKey /\ lastOp.keyErr # Nil

HandshakeFailed == lastOp.op = "SetPeerPublicKey" /\ lastOp.err # Nil

AllPresent(S) ==
    /\ S.peerPubKey # <<>>
    /\ S.aesKey # NoAesKey
    /\ S.ratchet.alloc

\* C13: a session is established exactly when its peer public key, its base
\* key and its ratchet are all present, and no call turns an established
\* session into one that is not established.
C13_EstablishmentInvariant ==
    /\ \A p \in Peers : IsEstablished(session[p]) <=> AllPresent(session[p])
    /\ lastOp.pre.established => IsEstablished(session[lastOp.who])

C13_Witness ==
    /\ HandshakeFailed /\ lastOp.pre.established
    /\ IsEstablished(session[lastOp.who]) /\ AllPresent(session[lastOp.who])
    /\ ~IsEstablished(session[Other(lastOp.who)])
    /\ ~AllPresent(session[Other(lastOp.who)])

(***************************************************************************)
(* C14.  Encrypt and Decrypt before the handshake.                         *)
(***************************************************************************)
\* the call was Encrypt or Decrypt on a session that was not established
BeforeHandshake ==
    /\ lastOp.op \in {"Encrypt", "Decrypt"}
    /\ ~lastOp.pre.established

\* C14: Encrypt and Decrypt on a session that is not established fail with
\* NotEstablished whatever the input is, well formed or not, and leave the
\* session as it was.
C14_NotEstablishedRejected ==
    BeforeHandshake =>
        /\ lastOp.err = "NotEstablished"
        /\ session[lastOp.who] = lastOp.pre

C14_Witness ==
    /\ BeforeHandshake /\ Decrypted
    /\ lastOp.input \in Malformed
    /\ lastOp.err = "NotEstablished"

(***************************************************************************)
(* C15.  Invalid peer public key.                                          *)
(***************************************************************************)
\* C15: on a session that is not established, SetPeerPublicKey of a string
\* that is not base64 fails with InvalidEncoding, SetPeerPublicKey of base64
\* bytes that are no curve point fails with InvalidPublicKey, and in both
\* cases IsEstablished stays false.
C15_InvalidPeerKey ==
    (lastOp.op = "SetPeerPublicKey" /\ ~lastOp.pre.established) =>
        /\ lastOp.input = BadBase64 => lastOp.err = "InvalidEncoding"
        /\ lastOp.input = NotAPoint => lastOp.err = "InvalidPublicKey"
        /\ lastOp.input \in {BadBase64, NotAPoint} =>
               ~IsEstablished(session[lastOp.who])

C15_Witness ==
    /\ lastOp.op = "SetPeerPublicKey" /\ ~lastOp.pre.established
    /\ lastOp.input = BadBase64
    /\ lastOp.err = "InvalidEncoding"
    /\ ~IsEstablished(session[lastOp.who])
    /\ IsEstablished(session[Other(lastOp.who)])

(***************************************************************************)
(* C16.  Agreement of the verification words.                              *)
(***************************************************************************)
\* each session has imported the other's public key
ImportedEachOther ==
    \A p \in Peers :
        /\ IsEstablished(session[p])
        /\ session[p].peerPubKey = session[Other(p)].publicKey

\* C16: when each of two sessions has imported the other's public key, their
\* base keys are equal and GetVerificationWords gives the same words on both,
\* whichever side imported first and whatever messages were exchanged.
C16_WordsAgree ==
    ImportedEachOther =>
        /\ session["A"].aesKey = session["B"].aesKey
        /\ GetVerificationWords(session["A"]) = GetVerificationWords(session["B"])

C16_Witness ==
    /\ ImportedEachOther
    /\ Decrypted /\ lastOp.err = Nil /\ lastOp.who = "A"
    /\ encCount["A"] > 0
    /\ GetVerificationWords(session["A"]) = GetVerificationWords(session["B"])
    /\ GetVerificationWords(session["A"]) # <<>>

(***************************************************************************)
(* C17.  Shape of the verification words.                                  *)
(***************************************************************************)
\* C17: GetVerificationWords returns nothing exactly when the session is not
\* established; on an established session it returns exactly 5 words, each
\* of them an entry of the wordlist.
C17_WordsShape ==
    \A p \in Peers :
        LET words == GetVerificationWords(session[p])
        IN  /\ (words = <<>>) <=> ~IsEstablished(session[p])
            /\ IsEstablished(session[p]) =>
                   /\ DOMAIN words = 1..5
                   /\ \A i \in 1..5 :
                          \E j \in 1..Len(wordlist) : words[i] = wordlist[j]

C17_Witness ==
    \E p \in Peers :
        /\ IsEstablished(session[p])
        /\ DOMAIN GetVerificationWords(session[p]) = 1..5
        /\ ~IsEstablished(session[Other(p)])
        /\ GetVerificationWords(session[Other(p)]) = <<>>

(***************************************************************************)
(* C18.  Role symmetry.                                                    *)
(***************************************************************************)
\* a chain key's origin: the secret it was derived from and which of the two
\* outputs of the KDF it descends from
ChainOf(ck) == [secret |-> ck.secret, which |-> ck.which]

\* string(a) < string(b) for byte strings of equal length
Smaller(a, b) ==
    \E i \in 1..Len(a) :
        /\ a[i] < b[i]
        /\ \A j \in 1..(i - 1) : a[j] = b[j]

\* C18: when each of two sessions has imported the other's public key,
\* exactly one of them is the initiator, the one whose public key bytes are
\* the smaller, and each side's send chain is the other's receive chain.
C18_RoleSymmetry ==
    ImportedEachOther =>
        /\ session["A"].isInitiator # session["B"].isInitiator
        /\ \A p \in Peers :
               /\ session[p].isInitiator <=>
                      Smaller(session[p].publicKey, session[Other(p)].publicKey)
               /\ ChainOf(session[p].ratchet.sendChainKey)
                      = ChainOf(session[Other(p)].ratchet.recvChainKey)

C18_Witness ==
    /\ ImportedEachOther
    /\ session["B"].isInitiator /\ ~session["A"].isInitiator
    /\ Smaller(session["B"].publicKey, session["A"].publicKey)
    /\ session["A"].ratchet.sendMsgNum > 0
    /\ session["B"].ratchet.recvMsgNum > 0

(***************************************************************************)
(* C19.  Key agreement between mirrored ratchets.                          *)
(***************************************************************************)
RECURSIVE SendKeyAt(_, _)
\* the key that NextSendKey returns together with number n, calling it on
\* ratchet r until that number comes
SendKeyAt(r, n) ==
    LET k == NextSendKey(r)
    IN  IF k.msgNum = n THEN k.msgKey ELSE SendKeyAt(k.ratchet, n)

\* the ratchet that the peer of session S builds when it imports S's key
MirrorOf(S, peerPrivateKey) ==
    SetPeerPublicKey(NewSession(peerPrivateKey), GetPublicKeyBase64(S)).sess.ratchet

\* C19: the key that a successful GetRecvKey(n) returns, directly or from the
\* cache, is the key that NextSendKey of the mirrored ratchet returns with
\* number n, and it is the key the peer did use for its message n if the
\* peer has sent one.
C19_KeyAgreement ==
    (AskedKey /\ lastOp.keyErr = Nil) =>
        /\ lastOp.key = SendKeyAt(MirrorOf(lastOp.pre,
                                           session[Other(lastOp.who)].privateKey),
                                  lastOp.msgNum)
        /\ \A k \in usedKeys[Other(lastOp.who)] :
               k.num = lastOp.msgNum => k = lastOp.key

C19_Witness ==
    /\ AskedKey /\ lastOp.keyErr = Nil /\ WasCached
    /\ lastOp.key \in usedKeys[Other(lastOp.who)]
    /\ encCount[lastOp.who] > 0
    /\ lastOp.key = SendKeyAt(MirrorOf(lastOp.pre,
                                       session[Other(lastOp.who)].privateKey),
                              lastOp.msgNum)

(***************************************************************************)
(* C20.  Message statistics.                                               *)
(***************************************************************************)
\* one handshake each, one message sent by each side and delivered to the
\* other, nothing refused
OneEachWay ==
    /\ Paired /\ ~failed
    /\ \A p \in Peers : encCount[p] = 1 /\ Cardinality(delivered[p]) = 1

\* C20: GetMessageStats is (0, 0) on a session that is not established and
\* (sendMsgNum, recvMsgNum) of the ratchet otherwise.  The first component is
\* the number of NextSendKey calls made on the ratchet; the second is the
\* next receive step not yet consumed: every number answered with a key and
\* every cached number lies below it, and the number just below it has been
\* answered.  After one message each way both sides report (1, 1).
C20_MessageStats ==
    /\ \A p \in Peers :
           LET stats == GetMessageStats(session[p])
               r == session[p].ratchet
           IN  /\ ~IsEstablished(session[p]) => stats = <<0, 0>>
               /\ IsEstablished(session[p]) =>
                      /\ stats = <<r.sendMsgNum, r.recvMsgNum>>
                      /\ stats[1] = sentOn[p]
                      /\ \A n \in returned[p] \cup DOMAIN r.skippedKeys :
                             n < stats[2]
                      /\ stats[2] > 0 => (stats[2] - 1) \in returned[p]
    /\ OneEachWay =>
           \A p \in Peers : GetMessageStats(session[p]) = <<1, 1>>

C20_Witness ==
    /\ OneEachWay
    /\ \A p \in Peers : GetMessageStats(session[p]) = <<1, 1>>
    /\ \A p \in Peers : sentOn[p] = 1 /\ returned[p] = {0}

(***************************************************************************)
(* C21.  The last received message number.                                 *)
(***************************************************************************)
\* C21: lastRecvMsgNum is the number of the session's latest successful
\* Decrypt, 0 if there was none: a successful Decrypt sets it to the number of
\* its message, and every failing Decrypt, every Encrypt and every
\* SetPeerPublicKey leaves it as it was.
C21_LastRecvMsgNum ==
    /\ \A p \in Peers :
           GetLastRecvMsgNum(session[p])
               = IF lastGood[p] = <<>> THEN 0 ELSE lastGood[p][1]
    /\ GetLastRecvMsgNum(session[lastOp.who])
           = IF Decrypted /\ lastOp.err = Nil THEN lastOp.msgNum
             ELSE GetLastRecvMsgNum(lastOp.pre)

C21_Witness ==
    /\ AskedKey /\ lastOp.keyErr = Nil /\ lastOp.err = "AuthenticationFailed"
    /\ lastGood[lastOp.who] # <<>>
    /\ GetLastRecvMsgNum(session[lastOp.who]) = 1
    /\ lastOp.msgNum # 1

(***************************************************************************)
(* C22.  The prompt.                                                       *)
(***************************************************************************)
\* C22: whenever the prompt of a session is rendered as "[#n] > ", some
\* message has been decrypted successfully and the latest such message had
\* the number n.
C22_PromptShowsLastDecrypted ==
    \A p \in Peers :
        Prompt(session[p]) # PlainPrompt =>
            /\ lastGood[p] # <<>>
            /\ Prompt(session[p]) = NumberPrompt(lastGood[p][1])

(***************************************************************************)
(* C23.  Tamper detection.                                                 *)
(***************************************************************************)
\* the body of a wire string
BodyOf(wire) == Base64Decode(SplitN2(wire)[2]).bytes

\* the call was a Decrypt, by a session that completed the handshake with
\* its peer, of a ciphertext the peer produced for the number it carries,
\* with one bit of the body altered
Tampered ==
    /\ Decrypted /\ ~lastOp.genuine
    /\ lastOp.pre.established
    /\ lastOp.pre.peerPubKey = session[Other(lastOp.who)].publicKey
    /\ BodyOf(lastOp.input).box.key \in usedKeys[Other(lastOp.who)]
    /\ BodyOf(lastOp.input).box.key.num = NumberOf(lastOp.input)

\* C23 as stated: Decrypt of a tampered ciphertext fails with an
\* authentication failure.
C23_TamperAuthFails ==
    Tampered => lastOp.err = "AuthenticationFailed"

\* C23 as amended: Decrypt of a tampered ciphertext never returns a
\* plaintext; it fails with an authentication failure when GetRecvKey
\* answers the number of the message, and with the error of GetRecvKey when
\* the number has been consumed before or is out of reach.
C23_TamperRejected ==
    Tampered =>
        /\ lastOp.err # Nil /\ lastOp.out = <<>>
        /\ lastOp.keyErr = Nil => lastOp.err = "AuthenticationFailed"
        /\ lastOp.keyErr # Nil =>
               lastOp.err \in {"AlreadyReceived", "TooManySkipped"}

C23_Witness ==
    /\ Tampered
    /\ BodyOf(lastOp.input).kind = "aead"
    /\ BodyOf(lastOp.input).nonce # BodyOf(lastOp.input).box.nonce
    /\ lastOp.keyErr = Nil /\ lastOp.key = BodyOf(lastOp.input).box.key
    /\ lastOp.err = "AuthenticationFailed"

(***************************************************************************)
(* C24.  Distinct ciphertexts.                                             *)
(***************************************************************************)
\* the first delivery of a wire string of the peer's Encrypt to a session
\* that is established with that peer and has had no Decrypt fail in the
\* AEAD step
FirstDelivery ==
    /\ Decrypted /\ lastOp.genuine /\ ~lastOp.seen /\ ~lastOp.afterFail
    /\ lastOp.pre.established
    /\ lastOp.pre.peerPubKey = session[Other(lastOp.who)].publicKey

\* C24: a successful Encrypt never returns a wire string that an earlier
\* Encrypt of the same session returned (the network keeps them all), and
\* the peer decrypts each of them to its plaintext when it first gets it.
C24_DistinctCiphertexts ==
    /\ (lastOp.op = "Encrypt" /\ lastOp.err = Nil) => ~lastOp.again
    /\ FirstDelivery => Recovered

(***************************************************************************)
(* C25.  One-to-one numbering.                                             *)
(***************************************************************************)
\* C25: an Encrypt call that returns an error has not advanced sendMsgNum:
\* every number NextSendKey commits is the number of an emitted ciphertext.
C25_OneToOneNumbering ==
    (lastOp.op = "Encrypt" /\ lastOp.err # Nil) =>
        session[lastOp.who].ratchet.sendMsgNum = lastOp.pre.ratchet.sendMsgNum

(***************************************************************************)
(* C26.  Atomicity of the composed operations under concurrency.           *)
(***************************************************************************)
\* thread t has made the ratchet step of its call and has not returned
PastKey(t) == pc[t] \in {"aead", "store"}

\* C26: a call on a Session runs from its ratchet step to its return with
\* no step of another call on that Session in between: while one thread is
\* past its ratchet step, no other thread has made one, and the wire strings
\* leave Encrypt in the order of their message numbers.
C26_ComposedAtomic ==
    /\ \A t, u \in Threads : (t # u /\ PastKey(t)) => ~PastKey(u)
    /\ (lastOp.op = "Encrypt" /\ lastOp.err = Nil) =>
           \A m \in net :
               m.from = lastOp.who => NumberOf(m.wire) <= lastOp.msgNum

(***************************************************************************)
(* C27.  Zeroization of message keys.                                      *)
(***************************************************************************)
\* the call obtained a message key from the ratchet
ObtainedKey ==
    /\ lastOp.op \in {"Encrypt", "Decrypt"}
    /\ lastOp.key # NoMsgKey

\* C27: every Encrypt and Decrypt call that obtained a message key from the
\* ratchet has overwritten it with zeros when it returns, whether it returns
\* a result or an error.
C27_KeysZeroized == ObtainedKey => lastOp.zeroed

(***************************************************************************)
(* C28.  Receive coverage.                                                 *)
(***************************************************************************)
\* C28: in every ratchet, every number below recvMsgNum has been answered
\* with its key by GetRecvKey or is in skippedKeys, and no number at or above
\* recvMsgNum is in skippedKeys.
C28_ReceiveCoverage ==
    \A p \in Peers :
        LET r == session[p].ratchet
        IN  /\ \A n \in 0..(r.recvMsgNum - 1) :
                   n \in returned[p] \/ n \in DOMAIN r.skippedKeys
            /\ \A n \in DOMAIN r.skippedKeys : n < r.recvMsgNum

C28_Witness ==
    /\ AskedKey /\ lastOp.keyErr = Nil /\ WasCached
    /\ lastOp.msgNum \in returned[lastOp.who]
    /\ lastOp.msgNum + 1 < session[lastOp.who].ratchet.recvMsgNum
    /\ session[lastOp.who].ratchet.skippedKeys # NoSkipped
    /\ Cardinality(returned[lastOp.who]) > 1

(***************************************************************************)
(* C29.  Linear advance.                                                   *)
(***************************************************************************)
RECURSIVE StepKey(_, _, _)
\* the message key of step n of a chain that stands at step r with chain
\* key ck
StepKey(ck, r, n) ==
    LET d == deriveKeys(ck, r)
    IN  IF d.msgKey.num = n THEN d.msgKey ELSE StepKey(d.newChainKey, r + 1, n)

\* GetRecvKey succeeded without finding the number in the cache, the number
\* being at or above recvMsgNum and at most maxSkip ahead of it
LinearAdvance ==
    /\ AskedKey /\ lastOp.keyErr = Nil /\ ~WasCached
    /\ lastOp.pre.ratchet.recvMsgNum <= lastOp.msgNum
    /\ lastOp.msgNum <= lastOp.pre.ratchet.recvMsgNum + maxSkip

\* C29: a GetRecvKey(m) that succeeds from recvMsgNum = r without a cache hit
\* leaves recvMsgNum = m + 1, adds to skippedKeys exactly the numbers r..m-1,
\* each with the key of its own step, keeps the entries that were there, and
\* returns the key of step m.
C29_LinearAdvance ==
    LinearAdvance =>
        LET old == lastOp.pre.ratchet
            new == session[lastOp.who].ratchet
            r == old.recvMsgNum
            m == lastOp.msgNum
        IN  /\ new.recvMsgNum = m + 1
            /\ DOMAIN new.skippedKeys = DOMAIN old.skippedKeys \cup r..(m - 1)
            /\ \A n \in DOMAIN old.skippedKeys :
                   new.skippedKeys[n] = old.skippedKeys[n]
            /\ \A n \in r..(m - 1) :
                   new.skippedKeys[n] = StepKey(old.recvChainKey, r, n)
            /\ lastOp.key = StepKey(old.recvChainKey, r, m)

C29_Witness ==
    /\ LinearAdvance /\ Gap = maxSkip
    /\ lastOp.pre.ratchet.skippedKeys # NoSkipped
    /\ Cardinality(DOMAIN session[lastOp.who].ratchet.skippedKeys)
           = Cardinality(DOMAIN lastOp.pre.ratchet.skippedKeys) + maxSkip

(***************************************************************************)
(* C30.  Cache hit.                                                        *)
(***************************************************************************)
\* C30: a GetRecvKey(m) answered from skippedKeys returns the cached key,
\* removes the entry m and no other, and leaves recvMsgNum, recvChainKey,
\* sendMsgNum and sendChainKey as they were.
C30_CacheHitFrame ==
    (AskedKey /\ lastOp.keyErr = Nil /\ WasCached) =>
        LET old == lastOp.pre.ratchet
            new == session[lastOp.who].ratchet
        IN  /\ lastOp.key = old.skippedKeys[lastOp.msgNum]
            /\ DOMAIN new.skippedKeys = DOMAIN old.skippedKeys \ {lastOp.msgNum}
            /\ \A n \in DOMAIN new.skippedKeys :
                   new.skippedKeys[n] = old.skippedKeys[n]
            /\ new.recvMsgNum = old.recvMsgNum
            /\ new.recvChainKey = old.recvChainKey
            /\ new.sendMsgNum = old.sendMsgNum
            /\ new.sendChainKey = old.sendChainKey

C30_Witness ==
    /\ AskedKey /\ lastOp.keyErr = Nil /\ WasCached
    /\ lastOp.err = Nil /\ lastOp.genuine
    /\ \E n \in DOMAIN session[lastOp.who].ratchet.skippedKeys : n < lastOp.msgNum
    /\ \E n \in DOMAIN session[lastOp.who].ratchet.skippedKeys : n > lastOp.msgNum
    /\ session[lastOp.who].ratchet.recvMsgNum = lastOp.pre.ratchet.recvMsgNum

(***************************************************************************)
(* C31.  Framing errors do not touch the ratchet.                          *)
(***************************************************************************)
\* the call was a Decrypt on an established session that failed while it
\* parsed its input
FramingError ==
    Decrypted /\ lastOp.pre.established /\ lastOp.err \in FramingErrors

\* C31: a Decrypt on an established session that fails while parsing its
\* input (no space, a number that is no decimal 32-bit unsigned integer,
\* invalid base64) leaves recvMsgNum, recvChainKey, skippedKeys and
\* lastRecvMsgNum as they were, and the genuine message with the number the
\* input started with, delivered next for the first time, its number within
\* reach and not consumed by an earlier failure, is decrypted to its
\* plaintext.
C31_FramingErrorFrame ==
    /\ FramingError =>
           LET old == lastOp.pre
               new == session[lastOp.who]
           IN  /\ new.ratchet.recvMsgNum = old.ratchet.recvMsgNum
               /\ new.ratchet.recvChainKey = old.ratchet.recvChainKey
               /\ new.ratchet.skippedKeys = old.ratchet.skippedKeys
               /\ new.lastRecvMsgNum = old.lastRecvMsgNum
    /\ (FirstDelivery /\ lastOp.afterFrame) => Recovered

C31_Witness ==
    /\ FirstDelivery /\ lastOp.afterFrame /\ Recovered
    /\ lastOp.msgNum = 0 /\ WasCached
    /\ lastOp.pre.lastRecvMsgNum = 1

(***************************************************************************)
(* C32.  Too-short bodies consume the index.                               *)
(***************************************************************************)
\* the call was a Decrypt whose input parsed, whose number GetRecvKey
\* answered with a key, and whose body is shorter than a nonce and a tag
ShortBody ==
    /\ AskedKey /\ lastOp.keyErr = Nil
    /\ BodyOf(lastOp.input).len < nonceSize + tagSize

\* the number of the call is consumed: below the receive counter and not
\* in the cache
Consumed ==
    LET r == session[lastOp.who].ratchet
    IN  lastOp.msgNum < r.recvMsgNum /\ lastOp.msgNum \notin DOMAIN r.skippedKeys

\* the Decrypt calls that fail in the AEAD step are those with a short
\* body, and such a call fails after GetRecvKey has consumed its number
ShortBodyFails ==
    /\ ShortBody => (lastOp.err # Nil /\ lastOp.out = <<>> /\ Consumed)
    /\ (AskedKey /\ lastOp.keyErr = Nil /\ lastOp.err # Nil) => ShortBody

\* C32: a Decrypt whose input parses and whose number the ratchet accepts,
\* but whose body is shorter than nonceSize + tagSize bytes, fails after
\* GetRecvKey has consumed the number, and every later genuine message of
\* that number is refused by the session with AlreadyReceived.
C32_ShortBodyConsumes ==
    /\ ShortBodyFails
    /\ (Decrypted /\ lastOp.genuine /\ lastOp.pre.established /\ lastOp.burnt) =>
           lastOp.err = "AlreadyReceived"

(***************************************************************************)
(* C33.  Counters never wrap.                                              *)
(***************************************************************************)
\* C33: no NextSendKey and no GetRecvKey call decreases sendMsgNum or
\* recvMsgNum, and a number that GetRecvKey has answered once stays refused
\* with "already received": the counters do not return to 0 after their
\* largest value.
C33_CountersNeverWrap ==
    /\ (lastOp.op \in {"Encrypt", "Decrypt"} /\ lastOp.pre.established) =>
           /\ session[lastOp.who].ratchet.sendMsgNum >= lastOp.pre.ratchet.sendMsgNum
           /\ session[lastOp.who].ratchet.recvMsgNum >= lastOp.pre.ratchet.recvMsgNum
    /\ (AskedKey /\ lastOp.replay) => lastOp.keyErr = "AlreadyReceived"

(***************************************************************************)
(* C34.  Concurrent ratchet calls are serialized.                          *)
(***************************************************************************)
\* the chain key a chain started from
StartOf(ck) == [ck EXCEPT !.steps = 0, !.off = <<>>]

\* the message key was derived from a chain key and a counter in step with
\* each other: the chain advanced as many times as the counter says
InStep(msgKey) == msgKey.chain.steps = msgKey.num /\ msgKey.chain.off = <<>>

\* C34: when two threads call NextSendKey and GetRecvKey on one Ratchet,
\* the numbers NextSendKey has returned are 0..k-1, each once, each with the
\* message key of its step of the send chain; every key a GetRecvKey call
\* holds was derived from recvChainKey and recvMsgNum in step with each
\* other; and a GetRecvKey that succeeds returns the key of the step it was
\* asked for.
C34_RatchetSerialized ==
    LET r == session[Shared].ratchet
    IN  /\ {handed[i].msgNum : i \in 1..Len(handed)} = 0..(Len(handed) - 1)
        /\ \A i \in 1..Len(handed) :
               handed[i].key = StepKey(StartOf(r.sendChainKey), 0, handed[i].msgNum)
        /\ \A t \in Threads :
               (tmp[t].op = "GetRecvKey" /\ tmp[t].key # NoMsgKey) =>
                   /\ InStep(tmp[t].key)
                   /\ (pc[t] = "recvReturn" /\ tmp[t].keyErr = Nil) =>
                          tmp[t].key = StepKey(StartOf(r.recvChainKey), 0,
                                               tmp[t].msgNum)

\* one thread waits for the mutex with a GetRecvKey call while the other
\* stands inside the loop of GetRecvKey between the assignment of the chain
\* key and the increment of the counter, two NextSendKey calls having
\* returned
C34_Witness ==
    \E t, u \in Threads :
        /\ t # u /\ mu = u
        /\ pc[t] = "lock" /\ tmp[t].op = "GetRecvKey"
        /\ pc[u] = "skipInc"
        /\ session[Shared].ratchet.recvChainKey.steps
               # session[Shared].ratchet.recvMsgNum
        /\ Len(handed) = 2

(***************************************************************************)
(* C35.  Index binding.                                                    *)
(***************************************************************************)
\* the call was a Decrypt, on an established session, of the body of a
\* message the peer's Encrypt produced, under a number other than the one
\* the peer sent it with
Renumbered ==
    /\ Decrypted /\ ~lastOp.genuine /\ lastOp.pre.established
    /\ \E m \in net :
           /\ m.from = Other(lastOp.who)
           /\ BodyOf(m.wire) = BodyOf(lastOp.input)
           /\ NumberOf(m.wire) # NumberOf(lastOp.input)

\* C35 as stated: a genuine ciphertext presented with a number j other than
\* its own fails authentication and consumes j.
C35_WrongIndexAuthFails ==
    Renumbered => (lastOp.err = "AuthenticationFailed" /\ Consumed)

\* C35 as amended: a genuine ciphertext presented with a number j other
\* than its own never yields a plaintext.  When GetRecvKey answers j, the
\* call fails authentication and j is consumed; when GetRecvKey refuses j
\* (already received, or too far ahead), the call fails with that error and
\* the ratchet is as it was.
C35_IndexBinding ==
    Renumbered =>
        /\ lastOp.err # Nil /\ lastOp.out = <<>>
        /\ lastOp.keyErr = Nil =>
               (lastOp.err = "AuthenticationFailed" /\ Consumed)
        /\ lastOp.keyErr # Nil =>
               /\ lastOp.err \in {"AlreadyReceived", "TooManySkipped"}
               /\ session[lastOp.who].ratchet = lastOp.pre.ratchet

\* the body of message 1 presented as message 0 to a session that has
\* consumed nothing: the key of number 0 does not open it, and 0 is consumed
C35_Witness ==
    /\ Renumbered
    /\ lastOp.msgNum = 0 /\ lastOp.pre.ratchet.recvMsgNum = 0
    /\ BodyOf(lastOp.input).box.key.num = 1
    /\ lastOp.keyErr = Nil /\ lastOp.err = "AuthenticationFailed"
    /\ Consumed

====
